---- MODULE Spec2Model ----
(***************************************************************************)
(* Jump-file scanner of jira-helper: the /api/files route (parseFileName,  *)
(* parseJumpFileContent, scanDirectory, GET).                              *)
(*                                                                         *)
(* Strings are sequences of one-character strings, so that slicing,        *)
(* splitting, padding and regular-expression matching are computed         *)
(* character by character, as the JavaScript does.                         *)
(***************************************************************************)
EXTENDS Integers, Sequences, FiniteSets, TLC

VARIABLES
    \* -- parseFileName applied to one name ------------------------------
    nameArg,      \* the fileName argument
    nameTok,      \* the tokens and the shape nameArg was assembled from
    nameRet,      \* the value returned, NotCalled before the call
    \* -- parseJumpFileContent applied to one body -----------------------
    contentArg,   \* the content argument
    sessionArg,   \* the sessionName argument
    contentTok,   \* the lines contentArg was assembled from
    contentRet,   \* the events returned, NotCalled before the call
    \* -- one request to GET /api/files ----------------------------------
    fsys,         \* the directory tree under VOICE_TAGGING_PATH
    request,      \* the query parameters, NoRequest before the request
    phase,        \* "idle", "scanning", "scanned", "responded"
    stack,        \* the activations of scanDirectory, innermost last
    scanned,      \* what the outermost scanDirectory returned
    visits,       \* how often each entry was listed or read
    response,     \* the HTTP response, NoResponse before it is sent
    \* -- the page: filteredFiles applied to one file list ---------------
    pageFileData, \* fileData: the FileSearchResponse held by the page
    filters,      \* the FilterState
    filtered,     \* the list filteredFiles returned, NotCalled before
    \* -- the summary of GET /api/files applied to one file list ---------
    summaryArg,   \* the files the summary is computed from, NoFiles if none are
    summaryRet,   \* the summary returned, NotCalled before the call
    \* -- the page: its state, its timers and its requests in flight ------
    searchValue,  \* the content of the search box
    viewState,    \* "search", "loading", "results", "error", "files-loading",
                  \* "files-results"
    ticketData,   \* the JiraTicket held by the page, NoTicket for null
    errorMessage, \* the message of the error view
    timers,       \* pending setTimeout(handleSearch, 100) calls, counted by
                  \* the searchValue their handleSearch closes over
    lookups,      \* fetches of /api/jira in flight, counted by ticket
    scanQueue,    \* fetches of /api/files in flight, by their query strings
    \* -- one request to GET /api/jira ------------------------------------
    jira          \* the state of the handler

nameVars    == <<nameArg, nameTok, nameRet>>
contentVars == <<contentArg, sessionArg, contentTok, contentRet>>
scanVars    == <<fsys, request, phase, stack, scanned, visits, response>>
uiVars      == <<pageFileData, filters, filtered>>
summaryVars == <<summaryArg, summaryRet>>
pageVars    == <<searchValue, viewState, ticketData, errorMessage, timers,
                 lookups, scanQueue>>
moreVars    == <<summaryVars, pageVars, jira>>
vars        == <<nameVars, contentVars, scanVars, uiVars, moreVars>>

(***************************************************************************)
(* Characters and strings                                                  *)
(***************************************************************************)
Digit == {"0", "1", "2", "3", "4", "5", "6", "7", "8", "9"}

\* What String.prototype.trim removes and /\s/ matches, as far as the
\* bodies of the model use it.
WhiteSpace == {" ", "\t", "\r", "\n"}

LineTerminator == {"\n", "\r"}

\* Printable ASCII in code-unit order, in two runs: the code unit of
\* AsciiLow[i] is 31 + i (space to underscore), that of AsciiHigh[i] is
\* 96 + i (a to tilde).
AsciiLow ==
    <<" ", "!", "\"", "#", "$", "%", "&", "'", "(", ")", "*", "+", ",", "-",
      ".", "/", "0", "1", "2", "3", "4", "5", "6", "7", "8", "9", ":", ";",
      "<", "=", ">", "?", "@", "A", "B", "C", "D", "E", "F", "G", "H", "I",
      "J", "K", "L", "M", "N", "O", "P", "Q", "R", "S", "T", "U", "V", "W",
      "X", "Y", "Z", "[", "\\", "]", "^", "_">>

AsciiHigh ==
    <<"a", "b", "c", "d", "e", "f", "g", "h", "i", "j", "k", "l", "m", "n",
      "o", "p", "q", "r", "s", "t", "u", "v", "w", "x", "y", "z", "{", "|",
      "}", "~">>

Occurs(seq, c) == \E i \in 1..Len(seq) : seq[i] = c
IndexIn(seq, c) == CHOOSE i \in 1..Len(seq) : seq[i] = c

CodeUnit(c) ==
    CASE c = "\t" -> 9
      [] c = "\n" -> 10
      [] c = "\r" -> 13
      [] Occurs(AsciiLow, c) -> 31 + IndexIn(AsciiLow, c)
      [] OTHER -> 96 + IndexIn(AsciiHigh, c)

Min2(a, b) == IF a < b THEN a ELSE b
MaxOf(S) == CHOOSE x \in S : \A y \in S : y <= x
MinOf(S) == CHOOSE x \in S : \A y \in S : x <= y

\* s.slice(from, to) with 0-based, end-exclusive, non-negative indices.
Slice(s, from, to) == SubSeq(s, from + 1, Min2(to, Len(s)))

RECURSIVE Concat(_)
Concat(ss) == IF ss = <<>> THEN <<>> ELSE Head(ss) \o Concat(Tail(ss))

\* parts.join(sep)
RECURSIVE JoinWith(_, _)
JoinWith(parts, sep) ==
    IF parts = <<>> THEN <<>>
    ELSE IF Len(parts) = 1 THEN parts[1]
    ELSE parts[1] \o sep \o JoinWith(Tail(parts), sep)

\* s.endsWith(suffix)
EndsWith(s, suffix) ==
    /\ Len(suffix) <= Len(s)
    /\ SubSeq(s, Len(s) - Len(suffix) + 1, Len(s)) = suffix

\* s.startsWith(prefix)
StartsWith(s, prefix) ==
    /\ Len(prefix) <= Len(s)
    /\ SubSeq(s, 1, Len(prefix)) = prefix

\* The first position at or after i that holds sep, Len(s) + 1 when none does.
NextSep(s, i, sep) ==
    IF \E j \in i..Len(s) : s[j] = sep
    THEN MinOf({j \in i..Len(s) : s[j] = sep})
    ELSE Len(s) + 1

\* s.split(sep) for a one-character separator: "" splits into [""].
RECURSIVE SplitFrom(_, _, _)
SplitFrom(s, i, sep) ==
    LET j == NextSep(s, i, sep) IN
    IF j > Len(s) THEN <<SubSeq(s, i, Len(s))>>
    ELSE <<SubSeq(s, i, j - 1)>> \o SplitFrom(s, j + 1, sep)

SplitChar(s, sep) == SplitFrom(s, 1, sep)

(***************************************************************************)
(* Regular expressions: a pattern is a sequence of items, matched with the *)
(* backtracking, greedy-first discipline of the JavaScript engine.         *)
(*   [k |-> "start"]                 ^                                     *)
(*   [k |-> "end"]                   $   (no m flag: end of input)         *)
(*   [k |-> "run", of |-> <<..>>]    consecutive single characters, each   *)
(*                                   Lit(c), a literal, or AnyChar, a dot  *)
(*                                   (anything but a line terminator)      *)
(*   [k |-> "cls", neg, set, min, max, cap]                                *)
(*        a character class, negated or not, repeated min..max times       *)
(*        (max = -1: unbounded), greedy, captured when cap                 *)
(***************************************************************************)
Lit(c) == [any |-> FALSE, c |-> c]
AnyChar == [any |-> TRUE]
Run(of) == [k |-> "run", of |-> of]
Lits(s) == Run([i \in 1..Len(s) |-> Lit(s[i])])
AtStart == [k |-> "start"]
AtEnd == [k |-> "end"]
Cls(neg, set, min, max, cap) ==
    [k |-> "cls", neg |-> neg, set |-> set, min |-> min, max |-> max, cap |-> cap]

NoMatch == [ok |-> FALSE, caps |-> <<>>]

InClass(it, c) == IF it.neg THEN c \notin it.set ELSE c \in it.set

CharMatches(one, c) == IF one.any THEN c \notin LineTerminator ELSE c = one.c

\* How many consecutive characters from position i belong to the class.
RunLength(s, i, it) ==
    LET stops == {j \in i..Len(s) : ~InClass(it, s[j])} IN
    IF stops = {} THEN Len(s) - i + 1 ELSE MinOf(stops) - i

\* The numbers of characters the item can take at position i.
Takes(it, s, i) ==
    CASE it.k = "start" -> IF i = 1 THEN {0} ELSE {}
      [] it.k = "end"   -> IF i = Len(s) + 1 THEN {0} ELSE {}
      [] it.k = "run"   ->
           IF /\ i + Len(it.of) - 1 <= Len(s)
              /\ \A j \in 1..Len(it.of) : CharMatches(it.of[j], s[i + j - 1])
           THEN {Len(it.of)} ELSE {}
      [] it.k = "cls"   -> it.min..(IF it.max < 0 THEN RunLength(s, i, it)
                                    ELSE Min2(RunLength(s, i, it), it.max))

\* The match that takes the most characters for the item among those whose
\* rest matches: tries holds <<n, the match of the rest after taking n>>.
Greedy(it, s, i, tries) ==
    LET good == {t \in tries : t[2].ok} IN
    IF good = {} THEN NoMatch
    ELSE LET best == CHOOSE t \in good : \A u \in good : u[1] <= t[1] IN
         [ok   |-> TRUE,
          caps |-> (IF it.k = "cls" /\ it.cap
                    THEN <<SubSeq(s, i, i + best[1] - 1)>> ELSE <<>>)
                   \o best[2].caps]

\* The items of pat from the k-th on, matched against s from position i.
RECURSIVE MatchFrom(_, _, _, _)
MatchFrom(pat, k, s, i) ==
    IF k > Len(pat) THEN [ok |-> TRUE, caps |-> <<>>]
    ELSE Greedy(pat[k], s, i,
                {<<n, MatchFrom(pat, k + 1, s, i + n)>> : n \in Takes(pat[k], s, i)})

\* The leftmost of the matches <<position, match>>, NoMatch when there is none.
Leftmost(matches) ==
    LET hits == {m \in matches : m[2].ok} IN
    IF hits = {} THEN NoMatch
    ELSE (CHOOSE m \in hits : \A u \in hits : m[1] <= u[1])[2]

\* s.match(pattern) without the g flag: the leftmost match, its captures.
RegexMatch(pat, s) ==
    Leftmost({<<i, MatchFrom(pat, 1, s, i)>> : i \in 1..(Len(s) + 1)})

(***************************************************************************)
(* parseFileName                                                           *)
(***************************************************************************)
Underscore == <<"_">>
DatacoPrefix == <<"D", "A", "T", "A", "C", "O", "-">>
JumpExt == <<".", "j", "u", "m", "p">>

\* The pattern with dates and time of any number of digits
FileNamePatternAnyLength ==
    <<AtStart,
      Cls(TRUE, {"_"}, 1, -1, TRUE), Lits(Underscore),
      Cls(TRUE, {"_"}, 1, -1, TRUE), Lits(Underscore),
      Cls(FALSE, Digit, 1, -1, TRUE), Lits(Underscore),
      Cls(FALSE, Digit, 1, -1, TRUE), Lits(Underscore),
      Cls(FALSE, Digit, 1, -1, TRUE), Lits(Underscore),
      Cls(FALSE, Digit, 1, -1, TRUE), Lits(Underscore \o DatacoPrefix),
      Cls(FALSE, Digit, 1, -1, TRUE), Lits(JumpExt),
      AtEnd>>

\* The pattern without its closing $
FileNamePatternOpenEnded ==
    <<AtStart,
      Cls(TRUE, {"_"}, 1, -1, TRUE), Lits(Underscore),
      Cls(TRUE, {"_"}, 1, -1, TRUE), Lits(Underscore),
      Cls(FALSE, Digit, 6, 6, TRUE), Lits(Underscore),
      Cls(FALSE, Digit, 6, 6, TRUE), Lits(Underscore),
      Cls(FALSE, Digit, 1, -1, TRUE), Lits(Underscore),
      Cls(FALSE, Digit, 6, 6, TRUE), Lits(Underscore \o DatacoPrefix),
      Cls(FALSE, Digit, 1, -1, TRUE), Lits(JumpExt)>>

\* /^([^_]+)_([^_]+)_(\d{6})_(\d{6})_(\d+)_(\d{6})_DATACO-(\d+)\.jump$/
FileNamePattern ==
    <<AtStart,
      Cls(TRUE, {"_"}, 1, -1, TRUE), Lits(Underscore),
      Cls(TRUE, {"_"}, 1, -1, TRUE), Lits(Underscore),
      Cls(FALSE, Digit, 6, 6, TRUE), Lits(Underscore),
      Cls(FALSE, Digit, 6, 6, TRUE), Lits(Underscore),
      Cls(FALSE, Digit, 1, -1, TRUE), Lits(Underscore),
      Cls(FALSE, Digit, 6, 6, TRUE), Lits(Underscore \o DatacoPrefix),
      Cls(FALSE, Digit, 1, -1, TRUE), Lits(JumpExt),
      AtEnd>>

\* formatDate without the century
formatDateShortYear(dateStr) ==
    IF Len(dateStr) = 6
    THEN Slice(dateStr, 0, 2) \o <<"/">> \o Slice(dateStr, 2, 4)
         \o <<"/">> \o Slice(dateStr, 4, 6)
    ELSE dateStr

formatDate(dateStr) ==
    IF Len(dateStr) = 6
    THEN Slice(dateStr, 0, 2) \o <<"/">> \o Slice(dateStr, 2, 4)
         \o <<"/">> \o <<"2", "0">> \o Slice(dateStr, 4, 6)
    ELSE dateStr

formatTime(timeStr) ==
    IF Len(timeStr) = 6
    THEN Slice(timeStr, 0, 2) \o <<":">> \o Slice(timeStr, 2, 4)
         \o <<":">> \o Slice(timeStr, 4, 6)
    ELSE timeStr

\* The null that parseFileName returns for a name outside the grammar.
NoMetadata == [matched |-> FALSE]

\* Lines 65-99: the result for a match of the pattern, or for none
metadataOfMatch(match) ==
    IF ~match.ok THEN NoMetadata
    ELSE LET project      == match.caps[1]
             vehicle      == match.caps[2]
             date         == match.caps[3]
             time         == match.caps[4]
             swVersion    == match.caps[5]
             createDate   == match.caps[6]
             datacoNumber == match.caps[7]
         IN  [matched      |-> TRUE,
              project      |-> project,
              vehicle      |-> vehicle,
              date         |-> formatDate(date),
              time         |-> formatTime(time),
              swVersion    |-> swVersion,
              createDate   |-> formatDate(createDate),
              datacoNumber |-> datacoNumber,
              sessionName  |-> JoinWith(<<project, vehicle, date, time, swVersion>>,
                                        Underscore)]

parseFileName(fileName) == metadataOfMatch(RegexMatch(FileNamePattern, fileName))

(***************************************************************************)
(* parseJumpFileContent                                                    *)
(***************************************************************************)
\* s.trim()
Trim(s) ==
    LET keep == {i \in 1..Len(s) : s[i] \notin WhiteSpace} IN
    IF keep = {} THEN <<>> ELSE SubSeq(s, MinOf(keep), MaxOf(keep))

\* s.split(/\s+/): the pieces between maximal runs of white space; a run at
\* either end leaves an empty piece there.
RECURSIVE SplitSpaceFrom(_, _)
SplitSpaceFrom(s, i) ==
    LET gaps == {j \in i..Len(s) : s[j] \in WhiteSpace} IN
    IF gaps = {} THEN <<SubSeq(s, i, Len(s))>>
    ELSE LET j    == MinOf(gaps)
             rest == {m \in j..Len(s) : s[m] \notin WhiteSpace}
         IN  IF rest = {} THEN <<SubSeq(s, i, j - 1), <<>> >>
             ELSE <<SubSeq(s, i, j - 1)>> \o SplitSpaceFrom(s, MinOf(rest))

SplitSpace(s) == SplitSpaceFrom(s, 1)

ClipWidth == 4

\* Padding at the end instead of the start
PadEnd(s, width, fill) ==
    IF Len(s) >= width THEN s
    ELSE s \o [i \in 1..(width - Len(s)) |-> fill]

\* s.padStart(width, fill) for a one-character fill
PadStart(s, width, fill) ==
    IF Len(s) >= width THEN s
    ELSE [i \in 1..(width - Len(s)) |-> fill] \o s

\* The characters of the class [.*+?^${}()|[\]\\]
RegexMeta == {".", "*", "+", "?", "^", "$", "{", "}", "(", ")", "|", "[", "]", "\\"}

\* sessionName.replace(/[.*+?^${}()|[\]\\]/g, '\\$&')
RECURSIVE EscapeRegex(_)
EscapeRegex(s) ==
    IF s = <<>> THEN <<>>
    ELSE (IF Head(s) \in RegexMeta THEN <<"\\", Head(s)>> ELSE <<Head(s)>>)
         \o EscapeRegex(Tail(s))

\* new RegExp(source) for the part of the source that comes from the session
\* name: a backslash makes the next character literal, a bare dot matches any
\* character, every other character stands for itself.
RECURSIVE CompileSource(_)
CompileSource(src) ==
    IF src = <<>> THEN <<>>
    ELSE LET escaped == Head(src) = "\\" /\ Len(src) >= 2
             one     == IF escaped THEN Lit(src[2])
                        ELSE IF Head(src) = "." THEN AnyChar
                        ELSE Lit(Head(src))
         IN  <<one>> \o CompileSource(SubSeq(src, IF escaped THEN 3 ELSE 2, Len(src)))

\* The pattern without the session name
trackPatternAnySession(sessionName) ==
    <<Lits(<<"_", "s">>),
      Cls(FALSE, Digit, 1, -1, FALSE), Lits(<<"_", "s", "_">>),
      Cls(TRUE, {"_"}, 1, -1, TRUE), Lits(<<"_", "s">>),
      Cls(FALSE, Digit, 1, -1, FALSE), Lits(Underscore),
      Cls(TRUE, {"_"}, 1, -1, TRUE), AtEnd>>

\* new RegExp(`${escaped}_s\\d+_s_([^_]+)_s\\d+_([^_]+)$`)
trackPattern(sessionName) ==
    <<Run(CompileSource(EscapeRegex(sessionName)) \o Lits(<<"_", "s">>).of),
      Cls(FALSE, Digit, 1, -1, FALSE), Lits(<<"_", "s", "_">>),
      Cls(TRUE, {"_"}, 1, -1, TRUE), Lits(<<"_", "s">>),
      Cls(FALSE, Digit, 1, -1, FALSE), Lits(Underscore),
      Cls(TRUE, {"_"}, 1, -1, TRUE), AtEnd>>

\* The clip number taken as captured
eventOfPartsUnpadded(parts, trackMatch, trimmedLine, sessionName) ==
    IF ~trackMatch.ok THEN <<>>
    ELSE <<[sessionName |-> sessionName,
            viewName    |-> trackMatch.caps[1],
            clipNumber  |-> trackMatch.caps[2],
            camera      |-> parts[2],
            frameNumber |-> parts[3],
            eventName   |-> JoinWith(SubSeq(parts, 4, Len(parts)), <<" ">>),
            fullLine    |-> trimmedLine]>>

\* Lines 115-134: the events (none or one) of a line of at least 4 parts
eventOfParts(parts, trackMatch, trimmedLine, sessionName) ==
    IF ~trackMatch.ok THEN <<>>
    ELSE <<[sessionName |-> sessionName,
            viewName    |-> trackMatch.caps[1],
            clipNumber  |-> PadStart(trackMatch.caps[2], ClipWidth, "0"),
            camera      |-> parts[2],
            frameNumber |-> parts[3],
            eventName   |-> JoinWith(SubSeq(parts, 4, Len(parts)), <<" ">>),
            fullLine    |-> trimmedLine]>>

\* A line needing a fifth part
eventOfTrimmedFiveParts(parts, trimmedLine, sessionName) ==
    IF Len(parts) < 5 THEN <<>>
    ELSE eventOfParts(parts, RegexMatch(trackPattern(sessionName), parts[1]),
                      trimmedLine, sessionName)

\* Lines 112-120
eventOfTrimmed(parts, trimmedLine, sessionName) ==
    IF Len(parts) < 4 THEN <<>>
    ELSE eventOfParts(parts, RegexMatch(trackPattern(sessionName), parts[1]),
                      trimmedLine, sessionName)

\* Comment lines handled as any other line
eventOfLineCommentsKept(trimmedLine, sessionName) ==
    IF trimmedLine = <<>> THEN <<>>
    ELSE eventOfTrimmed(SplitSpace(trimmedLine), trimmedLine, sessionName)

\* Lines 108-112
eventOfLine(trimmedLine, sessionName) ==
    IF trimmedLine = <<>> \/ StartsWith(trimmedLine, <<"#">>) THEN <<>>
    ELSE eventOfTrimmed(SplitSpace(trimmedLine), trimmedLine, sessionName)

RECURSIVE eventsOfLines(_, _)
eventsOfLines(lines, sessionName) ==
    IF lines = <<>> THEN <<>>
    ELSE eventOfLine(Trim(Head(lines)), sessionName)
         \o eventsOfLines(Tail(lines), sessionName)

parseJumpFileContent(content, sessionName) ==
    eventsOfLines(SplitChar(content, "\n"), sessionName)

(***************************************************************************)
(* Sentinels and idle values of the three groups of variables              *)
(***************************************************************************)
NotCalled == [called |-> FALSE]
Returned(v) == [called |-> TRUE, value |-> v]

NameIdle ==
    /\ nameArg = <<>>
    /\ nameTok = [shape |-> "none"]
    /\ nameRet = NotCalled

ContentIdle ==
    /\ contentArg = <<>>
    /\ sessionArg = <<>>
    /\ contentTok = <<>>
    /\ contentRet = NotCalled

(***************************************************************************)
(* File names handed to parseFileName: assembled from tokens, in the shape *)
(* of the grammar or in a shape that breaks it in one place.               *)
(***************************************************************************)
MaxDigits == 2

\* The non-empty strings over pool of at most n characters.
StringsUpTo(pool, n) == UNION {[1..k -> pool] : k \in 1..n}

Projects == {<<"P", "R", "J">>, <<"a", ".", "b">>, <<"B">>}
Vehicles == {<<"V", "E", "H">>, <<"v", "-", "2">>}
Dates == {<<"0", "1", "0", "1", "2", "4">>, <<"3", "1", "1", "2", "9", "9">>}
Times == {<<"1", "2", "0", "0", "0", "0">>, <<"2", "3", "5", "9", "0", "7">>}
CreateDates == {<<"0", "2", "0", "1", "2", "4">>}
SwVersions == StringsUpTo({"5", "0"}, MaxDigits)
Tickets == StringsUpTo({"4", "2"}, MaxDigits)

NameTokens ==
    [project : Projects, vehicle : Vehicles, date : Dates, time : Times,
     swVersion : SwVersions, createDate : CreateDates, ticket : Tickets]

NameShapes ==
    {"grammar", "noExt", "upperExt", "otherDot", "trailing", "shortDate",
     "longDate", "alphaTime", "shortCreate", "noProject", "noVehicle",
     "extraToken", "noPrefix", "lowerPrefix", "noTicket", "alphaTicket",
     "alphaSw", "noSw"}

DropLast(s) == SubSeq(s, 1, Len(s) - 1)

NameOf(t, shape) ==
    LET project == IF shape = "noProject" THEN <<>>
                   ELSE IF shape = "extraToken" THEN <<"X", "_">> \o t.project
                   ELSE t.project
        vehicle == IF shape = "noVehicle" THEN <<>> ELSE t.vehicle
        date    == IF shape = "shortDate" THEN DropLast(t.date)
                   ELSE IF shape = "longDate" THEN t.date \o <<"0">>
                   ELSE t.date
        time    == IF shape = "alphaTime" THEN <<"a">> \o Tail(t.time) ELSE t.time
        sw      == IF shape = "alphaSw" THEN t.swVersion \o <<"b">>
                   ELSE IF shape = "noSw" THEN <<>>
                   ELSE t.swVersion
        cdate   == IF shape = "shortCreate" THEN DropLast(t.createDate)
                   ELSE t.createDate
        prefix  == IF shape = "noPrefix" THEN <<>>
                   ELSE IF shape = "lowerPrefix"
                        THEN <<"d", "a", "t", "a", "c", "o", "-">>
                   ELSE DatacoPrefix
        ticket  == IF shape = "noTicket" THEN <<>>
                   ELSE IF shape = "alphaTicket" THEN t.ticket \o <<"a">>
                   ELSE t.ticket
        ext     == IF shape = "noExt" THEN <<>>
                   ELSE IF shape = "upperExt" THEN <<".", "J", "U", "M", "P">>
                   ELSE IF shape = "otherDot" THEN <<"x", "j", "u", "m", "p">>
                   ELSE IF shape = "trailing" THEN JumpExt \o <<"~">>
                   ELSE JumpExt
    IN  JoinWith(<<project, vehicle, date, time, sw, cdate, prefix \o ticket>>,
                 Underscore) \o ext

InitName ==
    /\ \E t \in NameTokens, shape \in NameShapes :
          /\ nameTok = [t |-> t, shape |-> shape]
          /\ nameArg = NameOf(t, shape)
    /\ nameRet = NotCalled

CallParseFileName ==
    /\ nameRet = NotCalled
    /\ nameTok.shape # "none"
    /\ nameRet' = Returned(parseFileName(nameArg))
    /\ UNCHANGED <<nameArg, nameTok, contentVars, scanVars, uiVars, moreVars>>

(***************************************************************************)
(* Bodies handed to parseJumpFileContent: lines assembled around a clip    *)
(* token, in the shape of an event line or in a shape that is not one.     *)
(***************************************************************************)
MaxLines == 2
MaxClip == 5

Sessions ==
    {<<"P", "R", "J", "_", "V", "E", "H", "_", "0", "1", "0", "1", "2", "4", "_", "1", "2", "0", "0", "0", "0", "_", "5">>,
     <<"a", ".", "b", "_", "V", "E", "H", "_", "3", "1", "1", "2", "9", "9", "_", "1", "2", "0", "0", "0", "0", "_", "5">>}

\* Clip tokens: digits of every length up to MaxClip, and tokens that are
\* not numbers.
Clips ==
    StringsUpTo({"7"}, MaxClip)
    \cup {<<"x">>, <<"0", "7">>, <<"1", "2", "x", "4", "5">>}

LineShapes ==
    {"event", "spaced", "comment", "hashed", "blank", "short", "prefixed",
     "createDate", "otherSession", "noView"}

TrackOf(session, clip) == session \o <<"_", "s", "1", "_", "s", "_", "F", "r", "o", "n", "t", "_", "s", "6", "0", "_">> \o clip

LineOf(session, clip, shape) ==
    CASE shape = "event" ->
           TrackOf(session, clip) \o <<" ", "C", "a", "m", "A", " ", "1", "0", "0", " ", "H", "o", "n", "k">>
      [] shape = "spaced" ->
           <<" ", " ">> \o TrackOf(session, clip) \o <<"\t", "C", "a", "m", "B", " ", " ", "2", "0", "0", " ", "L", "a", "n", "e", " ", " ", "c", "h", "a", "n", "g", "e", " ", "\r">>
      [] shape = "comment" ->
           <<"#", " ">> \o TrackOf(session, clip) \o <<" ", "C", "a", "m", "A", " ", "1", "0", "0", " ", "H", "o", "n", "k">>
      [] shape = "hashed" ->
           <<" ", "#">> \o TrackOf(session, clip) \o <<" ", "C", "a", "m", "A", " ", "1", "0", "0", " ", "H", "o", "n", "k">>
      [] shape = "blank" -> <<" ", " ", "\t">>
      [] shape = "short" ->
           TrackOf(session, clip) \o <<" ", "C", "a", "m", "A", " ", "1", "0", "0">>
      [] shape = "prefixed" ->
           <<"z">> \o TrackOf(session, clip) \o <<" ", "C", "a", "m", "A", " ", "1", "0", "0", " ", "H", "o", "n", "k">>
      [] shape = "createDate" ->
           session \o <<"_", "0", "2", "0", "1", "2", "4", "_", "s", "1", "_", "s", "_", "F", "r", "o", "n", "t", "_", "s", "6", "0", "_">> \o clip \o <<" ", "C", "a", "m", "A", " ", "1", "0", "0", " ", "H", "o", "n", "k">>
      [] shape = "otherSession" ->
           <<"Q">> \o TrackOf(Tail(session), clip) \o <<" ", "C", "a", "m", "A", " ", "1", "0", "0", " ", "H", "o", "n", "k">>
      [] shape = "noView" ->
           session \o <<"_", "s", "1", "_", "s", "_", "_", "s", "6", "0", "_">> \o clip \o <<" ", "C", "a", "m", "A", " ", "1", "0", "0", " ", "H", "o", "n", "k">>

LinesOf(session, clip, shapes) ==
    [j \in 1..Len(shapes) |-> LineOf(session, clip, shapes[j])]

InitContent ==
    /\ \E session \in Sessions, clip \in Clips,
          shapes \in UNION {[1..n -> LineShapes] : n \in 1..MaxLines} :
          /\ sessionArg = session
          /\ contentTok = [clip |-> clip, shapes |-> shapes]
          /\ contentArg = JoinWith(LinesOf(session, clip, shapes), <<"\n">>)
    /\ contentRet = NotCalled

CallParseJumpFileContent ==
    /\ contentRet = NotCalled
    /\ sessionArg # <<>>
    /\ contentRet' = Returned(parseJumpFileContent(contentArg, sessionArg))
    /\ UNCHANGED <<contentArg, sessionArg, contentTok, nameVars,
                   scanVars, uiVars, moreVars>>

(***************************************************************************)
(* Array helpers of scanDirectory and GET                                  *)
(***************************************************************************)
\* Every value kept, repeated or not
KeepAll(seq) == seq

\* [...new Set(seq)]: the distinct values in order of first occurrence
RECURSIVE Unique(_)
Unique(seq) ==
    IF seq = <<>> THEN <<>>
    ELSE LET front == Unique(DropLast(seq))
             last  == seq[Len(seq)]
         IN  IF Occurs(front, last) THEN front ELSE Append(front, last)

MapField(seq, f) == [i \in 1..Len(seq) |-> seq[i][f]]

\* The sign of the first difference of two sequences of numbers from
\* position i on, a proper prefix coming first.
RECURSIVE LexCompareFrom(_, _, _)
LexCompareFrom(x, y, i) ==
    IF i > Len(x) \/ i > Len(y)
    THEN (IF Len(x) < Len(y) THEN -1 ELSE IF Len(x) > Len(y) THEN 1 ELSE 0)
    ELSE LET d == x[i] - y[i] IN
         IF d < 0 THEN -1
         ELSE IF d > 0 THEN 1
         ELSE LexCompareFrom(x, y, i + 1)

LexCompare(x, y) == LexCompareFrom(x, y, 1)

\* dd/mm/yyyy strings compared as calendar dates: year, then month, then day
CalendarCompare(a, b) ==
    LET key(d) == IF Len(d) = 10
                  THEN SubSeq(d, 7, 10) \o SubSeq(d, 4, 5) \o SubSeq(d, 1, 2)
                  ELSE d
    IN  LexCompare([i \in 1..Len(key(a)) |-> CodeUnit(key(a)[i])],
                   [i \in 1..Len(key(b)) |-> CodeUnit(key(b)[i])])

\* The comparison Array.prototype.sort uses without a comparator: by code units.
CodeUnitCompare(a, b) ==
    LexCompare([i \in 1..Len(a) |-> CodeUnit(a[i])],
               [i \in 1..Len(b) |-> CodeUnit(b[i])])

\* String.prototype.localeCompare with the default collator (root collation,
\* punctuation not ignored): white space and punctuation sort before digits,
\* digits before letters, letters alphabetically whatever their case; strings
\* that differ only in case are ordered lower case first.
CollationOrder ==
    <<"\t", "\n", "\r", " ", "_", "-", ",", ";", ":", "!", "?", ".", "'", "\"",
      "(", ")", "[", "]", "{", "}", "@", "*", "/", "\\", "&", "#", "%", "^",
      "+", "<", "=", ">", "|", "~", "$",
      "0", "1", "2", "3", "4", "5", "6", "7", "8", "9",
      "a", "b", "c", "d", "e", "f", "g", "h", "i", "j", "k", "l", "m", "n",
      "o", "p", "q", "r", "s", "t", "u", "v", "w", "x", "y", "z">>

IsUpper(c) ==
    /\ Occurs(AsciiLow, c)
    /\ IndexIn(AsciiLow, c) \in IndexIn(AsciiLow, "A")..IndexIn(AsciiLow, "Z")

ToLower(c) ==
    IF IsUpper(c)
    THEN AsciiHigh[IndexIn(AsciiLow, c) - IndexIn(AsciiLow, "A") + 1]
    ELSE c

localeCompare(a, b) ==
    LET primary(s) == [i \in 1..Len(s) |-> IndexIn(CollationOrder, ToLower(s[i]))]
        case(s)    == [i \in 1..Len(s) |-> IF IsUpper(s[i]) THEN 1 ELSE 0]
        first      == LexCompare(primary(a), primary(b))
    IN  IF first # 0 THEN first ELSE LexCompare(case(a), case(b))

\* Array.prototype.sort is stable: an element goes behind every element that
\* does not compare greater than it. keep holds the positions of those.
InsertBehind(front, last, keep) ==
    LET at == IF keep = {} THEN 0 ELSE MaxOf(keep) IN
    SubSeq(front, 1, at) \o <<last>> \o SubSeq(front, at + 1, Len(front))

\* The strings left in the order given
unsorted(seq) == seq

\* strings.sort()
RECURSIVE sortStrings(_)
sortStrings(seq) ==
    IF seq = <<>> THEN <<>>
    ELSE LET front == sortStrings(DropLast(seq))
             last  == seq[Len(seq)]
         IN  InsertBehind(front, last,
                 {i \in 1..Len(front) : CodeUnitCompare(front[i], last) <= 0})

\* Comparing file names by code units
compareFileNameByCodeUnit(a, b) == CodeUnitCompare(a.fileName, b.fileName)

\* (a, b) => a.fileName.localeCompare(b.fileName)
compareFileName(a, b) == localeCompare(a.fileName, b.fileName)

\* files.sort((a, b) => a.fileName.localeCompare(b.fileName))
RECURSIVE sortFiles(_)
sortFiles(files) ==
    IF files = <<>> THEN <<>>
    ELSE LET front == sortFiles(DropLast(files))
             last  == files[Len(files)]
         IN  InsertBehind(front, last,
                 {i \in 1..Len(front) : compareFileName(front[i], last) <= 0})

\* s.replace(pattern, replacement) for a string pattern: the first occurrence
RECURSIVE ReplaceFirst(_, _, _)
ReplaceFirst(s, pattern, replacement) ==
    IF StartsWith(s, pattern)
    THEN replacement \o SubSeq(s, Len(pattern) + 1, Len(s))
    ELSE IF s = <<>> THEN <<>>
    ELSE <<Head(s)>> \o ReplaceFirst(Tail(s), pattern, replacement)

(***************************************************************************)
(* The directory tree under VOICE_TAGGING_PATH                             *)
(***************************************************************************)
MaxEntries == 3
MaxFailing == 1

TokensPRJ ==
    [project |-> <<"P", "R", "J">>, vehicle |-> <<"V", "E", "H">>, date |-> <<"0", "1", "0", "1", "2", "4">>,
     time |-> <<"1", "2", "0", "0", "0", "0">>, swVersion |-> <<"5">>,
     createDate |-> <<"0", "2", "0", "1", "2", "4">>, ticket |-> <<"4", "2">>]

TokensDot == [TokensPRJ EXCEPT !.project = <<"a", ".", "b">>, !.date = <<"3", "1", "1", "2", "9", "9">>]

TokensB == [TokensPRJ EXCEPT !.project = <<"B">>, !.ticket = <<"7">>]

\* PRJ_VEH_010124_120000_5_020124_s1_s_Front_s60_7 CamA 100 Honk
BodyWithCreateDate ==
    <<"P", "R", "J", "_", "V", "E", "H", "_", "0", "1", "0", "1", "2", "4",
      "_", "1", "2", "0", "0", "0", "0", "_", "5", "_", "0", "2", "0", "1",
      "2", "4", "_", "s", "1", "_", "s", "_", "F", "r", "o", "n", "t", "_",
      "s", "6", "0", "_", "7", " ", "C", "a", "m", "A", " ", "1", "0", "0",
      " ", "H", "o", "n", "k">>

\* PRJ_VEH_010124_120000_5_s1_s_Front_s60_7 CamA 100 Honk
BodySession ==
    <<"P", "R", "J", "_", "V", "E", "H", "_", "0", "1", "0", "1", "2", "4",
      "_", "1", "2", "0", "0", "0", "0", "_", "5", "_", "s", "1", "_", "s",
      "_", "F", "r", "o", "n", "t", "_", "s", "6", "0", "_", "7", " ", "C",
      "a", "m", "A", " ", "1", "0", "0", " ", "H", "o", "n", "k">>

\* A comment, two events of session a.b_VEH_311299_120000_5 and a final newline
BodyTwoEvents ==
    <<"#", " ", "c", "\n", "a", ".", "b", "_", "V", "E", "H", "_", "3",
      "1", "1", "2", "9", "9", "_", "1", "2", "0", "0", "0", "0", "_", "5",
      "_", "s", "1", "_", "s", "_", "F", "r", "o", "n", "t", "_", "s", "6",
      "0", "_", "7", " ", "C", "a", "m", "A", " ", "1", "0", "0", " ", "H",
      "o", "n", "k", "\n", " ", " ", "a", ".", "b", "_", "V", "E", "H",
      "_", "3", "1", "1", "2", "9", "9", "_", "1", "2", "0", "0", "0", "0",
      "_", "5", "_", "s", "2", "_", "s", "_", "R", "e", "a", "r", "_", "s",
      "6", "0", "_", "1", "2", "\t", "C", "a", "m", "B", " ", "2", "0",
      "0", " ", "L", "a", "n", "e", " ", " ", "c", "h", "a", "n", "g", "e",
      "\n">>

\* The body before, then a third event that repeats the first event's name
\* and the second event's camera under a clip that sorts before both
BodyRepeats ==
    BodyTwoEvents \o
    <<"a", ".", "b", "_", "V", "E", "H", "_", "3", "1", "1", "2", "9",
      "9", "_", "1", "2", "0", "0", "0", "0", "_", "5", "_", "s", "3",
      "_", "s", "_", "F", "r", "o", "n", "t", "_", "s", "6", "0", "_",
      "3", " ", "C", "a", "m", "B", " ", "3", "0", "0", " ", "H", "o",
      "n", "k", "\n">>

\* B_VEH_010124_120000_5_s3_s_Rear_s60_12345 CamA 9 Honk
BodyLongClip ==
    <<"B", "_", "V", "E", "H", "_", "0", "1", "0", "1", "2", "4", "_", "1",
      "2", "0", "0", "0", "0", "_", "5", "_", "s", "3", "_", "s", "_", "R",
      "e", "a", "r", "_", "s", "6", "0", "_", "1", "2", "3", "4", "5", " ",
      "C", "a", "m", "A", " ", "9", " ", "H", "o", "n", "k">>

\* What a directory can hold: regular files by name and body, an entry that
\* is neither a directory nor a regular file, and a subdirectory.
Catalog ==
    <<[name |-> NameOf(TokensPRJ, "grammar"), kind |-> "file", body |-> BodyWithCreateDate],
      [name |-> NameOf(TokensPRJ, "grammar"), kind |-> "file", body |-> BodySession],
      [name |-> NameOf(TokensDot, "grammar"), kind |-> "file", body |-> BodyRepeats],
      [name |-> NameOf(TokensB, "grammar"), kind |-> "file", body |-> BodyLongClip],
      [name |-> NameOf(TokensPRJ, "shortDate"), kind |-> "file", body |-> BodySession],
      [name |-> NameOf(TokensDot, "noPrefix"), kind |-> "file", body |-> <<>>],
      [name |-> NameOf(TokensPRJ, "upperExt"), kind |-> "file", body |-> BodySession],
      [name |-> NameOf(TokensPRJ, "grammar"), kind |-> "other", body |-> <<>>],
      [name |-> <<"d">>, kind |-> "dir", body |-> <<>>]>>

\* An entry: its directory (0: the root, else the index of a directory
\* entry), what it is (an index of Catalog), and whether reading it succeeds
\* (readdirSync for a directory, statSync and readFileSync for a file).
EntryOf(parent, item, ok) == [parent |-> parent, item |-> item, ok |-> ok]

NameOfEntry(entry) == Catalog[entry.item].name
KindOf(entry) == Catalog[entry.item].kind

\* The entries that can follow those of t: in a directory of t, under a name
\* not yet used there, listed in order of directory and catalog index so that
\* each tree is built once.
Extensions(t) ==
    {e \in {EntryOf(parent, item, ok) :
               parent \in 0..Len(t), item \in 1..Len(Catalog), ok \in BOOLEAN} :
       /\ e.parent = 0 \/ KindOf(t[e.parent]) = "dir"
       /\ \A j \in 1..Len(t) :
            t[j].parent = e.parent => NameOfEntry(t[j]) # NameOfEntry(e)
       /\ t # <<>> =>
            LET last == t[Len(t)] IN
            \/ last.parent < e.parent
            \/ last.parent = e.parent /\ last.item < e.item
       /\ ~e.ok => KindOf(e) # "other"
       /\ Cardinality({j \in 1..Len(t) : KindOf(t[j]) = "file" /\ ~t[j].ok})
            + (IF KindOf(e) = "file" /\ ~e.ok THEN 1 ELSE 0) <= MaxFailing}

RECURSIVE TreesOfSize(_)
TreesOfSize(n) ==
    IF n = 0 THEN {<<>>}
    ELSE UNION {{Append(t, e) : e \in Extensions(t)} : t \in TreesOfSize(n - 1)}

Trees == UNION {TreesOfSize(n) : n \in 0..MaxEntries}

Children(dir) == {i \in 1..Len(fsys.entries) : fsys.entries[i].parent = dir}

\* path.join(dirPath, entry.name), relative to VOICE_TAGGING_PATH
RECURSIVE PathOf(_, _)
PathOf(entries, i) ==
    IF i = 0 THEN <<>>
    ELSE Append(PathOf(entries, entries[i].parent), NameOfEntry(entries[i]))

(***************************************************************************)
(* GET /api/files: the request and its validation                          *)
(***************************************************************************)
\* searchParams.get(name): null when the parameter is absent
Absent == [present |-> FALSE]
Given(v) == [present |-> TRUE, value |-> v]

\* Testing for null only
FalsyNullOnly(param) == ~param.present

\* !param: null and the empty string are both falsy
Falsy(param) == IF param.present THEN param.value = <<>> ELSE TRUE

\* !mainTicket || !subtasksParam
Required(mainTicket, subtasksParam) ==
    IF Falsy(mainTicket) THEN FALSE ELSE ~Falsy(subtasksParam)

MainTicketParams ==
    {Absent, Given(<<>>), Given(DatacoPrefix \o <<"1">>)}

SubtasksParams ==
    {Absent, Given(<<>>),
     Given(DatacoPrefix \o <<"4", "2">>),
     Given(<<"4", "2", ",">> \o DatacoPrefix \o <<"7">>)}

NoRequest == [received |-> FALSE]
NoResponse == [status |-> 0]

\* The identifiers as they were given
subtasksAsGiven(subtasksParam) == SplitChar(subtasksParam, ",")

\* subtasksParam.split(',').map(s => s.replace('DATACO-', ''))
subtasksOf(subtasksParam) ==
    LET parts == SplitChar(subtasksParam, ",") IN
    [i \in 1..Len(parts) |-> ReplaceFirst(parts[i], DatacoPrefix, <<>>)]

ScanIdle ==
    /\ fsys = [root |-> "missing", entries |-> <<>>]
    /\ request = NoRequest
    /\ phase = "off"
    /\ stack = <<>>
    /\ scanned = <<>>
    /\ visits = <<>>
    /\ response = NoResponse

InitScan ==
    /\ fsys \in {[root |-> "ok", entries |-> t] : t \in Trees}
               \cup {[root |-> "unlistable", entries |-> t] : t \in TreesOfSize(1)}
               \cup {[root |-> "missing", entries |-> <<>>]}
    /\ request = NoRequest
    /\ phase = "idle"
    /\ stack = <<>>
    /\ scanned = <<>>
    /\ visits = [i \in 0..Len(fsys.entries) |-> 0]
    /\ response = NoResponse

\* An activation of scanDirectory: its directory, where it stands ("enter":
\* before readdirSync, "loop": in or past the for loop), the entries the loop
\* has yet to take, and its files array.
Activation(dir) == [dir |-> dir, at |-> "enter", todo |-> {}, files |-> <<>>]

\* GET, lines 207-216: a required parameter is missing
RejectRequest ==
    /\ phase = "idle"
    /\ \E mainTicket \in MainTicketParams, subtasksParam \in SubtasksParams :
          /\ ~Required(mainTicket, subtasksParam)
          /\ request' = [received |-> TRUE, mainTicket |-> mainTicket,
                         subtasksParam |-> subtasksParam]
    /\ response' = [status |-> 400,
                    error  |-> "mainTicket and subtasks parameters are required"]
    /\ phase' = "responded"
    /\ UNCHANGED <<fsys, stack, scanned, visits, nameVars, contentVars, uiVars, moreVars>>

\* GET, lines 207-223: both parameters given, scanDirectory is called
StartScan ==
    /\ phase = "idle"
    /\ \E mainTicket \in MainTicketParams, subtasksParam \in SubtasksParams :
          /\ Required(mainTicket, subtasksParam)
          /\ request' = [received |-> TRUE, mainTicket |-> mainTicket,
                         subtasksParam |-> subtasksParam,
                         subtasks |-> subtasksOf(subtasksParam.value)]
    /\ phase' = "scanning"
    /\ stack' = <<Activation(0)>>
    /\ UNCHANGED <<fsys, scanned, visits, response, nameVars, contentVars, uiVars, moreVars>>

(***************************************************************************)
(* scanDirectory                                                           *)
(***************************************************************************)
Top == stack[Len(stack)]

SetTop(frame) == [stack EXCEPT ![Len(stack)] = frame]

Exists(dir) == dir # 0 \/ fsys.root # "missing"

\* A root whose listing never fails
ListableRootAlways(dir) == IF dir = 0 THEN TRUE ELSE fsys.entries[dir].ok

Listable(dir) == IF dir = 0 THEN fsys.root = "ok" ELSE fsys.entries[dir].ok

\* Lines 144-151: a missing directory returns at once; readdirSync either
\* throws into the outer catch or yields the entries, in an order the file
\* system chooses.
ListDirectory ==
    /\ phase = "scanning"
    /\ Top.at = "enter"
    /\ stack' = SetTop([Top EXCEPT
                          !.at = "loop",
                          !.todo = IF Exists(Top.dir) /\ Listable(Top.dir)
                                   THEN Children(Top.dir) ELSE {}])
    /\ visits' = IF Exists(Top.dir)
                 THEN [visits EXCEPT ![Top.dir] = @ + 1] ELSE visits
    /\ UNCHANGED <<fsys, request, phase, scanned, response, nameVars, contentVars, uiVars, moreVars>>

\* parseFileName(entry.name), tabulated over the catalog
metadataOf == [item \in 1..Len(Catalog) |-> parseFileName(Catalog[item].name)]

\* A file wanted whatever its ticket
WantedAnyTicket(entry, subtasks) ==
    /\ KindOf(entry) = "file"
    /\ EndsWith(NameOfEntry(entry), JumpExt)
    /\ LET metadata == metadataOf[entry.item] IN
         /\ metadata.matched
         /\ metadata.datacoNumber # <<>>

\* Lines 159-164: the entry is a regular file named *.jump whose name parses
\* and whose datacoNumber is one of the subtasks.
Wanted(entry, subtasks) ==
    /\ KindOf(entry) = "file"
    /\ EndsWith(NameOfEntry(entry), JumpExt)
    /\ LET metadata == metadataOf[entry.item] IN
         /\ metadata.matched
         /\ metadata.datacoNumber # <<>>
         /\ Occurs(subtasks, metadata.datacoNumber)

\* Lines 155-158: a subdirectory is scanned, its files are appended on return
EnterSubdirectory ==
    /\ phase = "scanning"
    /\ Top.at = "loop"
    /\ \E e \in Top.todo :
          /\ KindOf(fsys.entries[e]) = "dir"
          /\ stack' = Append(SetTop([Top EXCEPT !.todo = @ \ {e}]), Activation(e))
    /\ UNCHANGED <<fsys, request, phase, scanned, visits, response,
                   nameVars, contentVars, uiVars, moreVars>>

\* Lines 159-164: anything else that is not a wanted file is passed over
SkipEntry ==
    /\ phase = "scanning"
    /\ Top.at = "loop"
    /\ \E e \in Top.todo :
          /\ KindOf(fsys.entries[e]) # "dir"
          /\ ~Wanted(fsys.entries[e], request.subtasks)
          /\ stack' = SetTop([Top EXCEPT !.todo = @ \ {e}])
    /\ UNCHANGED <<fsys, request, phase, scanned, visits, response,
                   nameVars, contentVars, uiVars, moreVars>>

\* Lines 169-193: the record of a file but for its path
fileData(item) ==
    LET metadata      == metadataOf[item]
        content       == Catalog[item].body
        events        == parseJumpFileContent(content, metadata.sessionName)
        uniqueEvents  == Unique(MapField(events, "eventName"))
        uniqueCameras == Unique(MapField(events, "camera"))
        uniqueClips   == Unique(MapField(events, "clipNumber"))
    IN  [fileName      |-> Catalog[item].name,
         filePath      |-> <<>>,
         project       |-> metadata.project,
         vehicle       |-> metadata.vehicle,
         date          |-> metadata.date,
         time          |-> metadata.time,
         swVersion     |-> metadata.swVersion,
         createDate    |-> metadata.createDate,
         datacoNumber  |-> metadata.datacoNumber,
         sessionName   |-> metadata.sessionName,
         size          |-> Len(content),
         events        |-> events,
         eventCount    |-> Len(events),
         uniqueEvents  |-> uniqueEvents,
         uniqueCameras |-> uniqueCameras,
         uniqueClips   |-> uniqueClips]

\* fileData, tabulated over the catalog's files whose names parse
fileDataOf ==
    [item \in {i \in 1..Len(Catalog) : metadataOf[i].matched} |-> fileData(item)]

\* Lines 153, 166-193: the record pushed for entry e
fileRecord(entries, e) ==
    [fileDataOf[entries[e].item] EXCEPT !.filePath = PathOf(entries, e)]

\* Lines 166-193: statSync and readFileSync succeed, the record is pushed
ReadFile ==
    /\ phase = "scanning"
    /\ Top.at = "loop"
    /\ \E e \in Top.todo :
          /\ Wanted(fsys.entries[e], request.subtasks)
          /\ fsys.entries[e].ok
          /\ stack' = SetTop([Top EXCEPT
                                !.todo = @ \ {e},
                                !.files = Append(@, fileRecord(fsys.entries, e))])
          /\ visits' = [visits EXCEPT ![e] = @ + 1]
    /\ UNCHANGED <<fsys, request, phase, scanned, response, nameVars, contentVars, uiVars, moreVars>>

\* A read error ending the loop
afterReadErrorAbort(todo, e) == {}

\* Lines 194-196: what is left of the loop after the inner catch
afterReadError(todo, e) == todo \ {e}

\* A failed read tried a second time
ReadFileFailsRetrying ==
    /\ phase = "scanning"
    /\ Top.at = "loop"
    /\ \E e \in Top.todo :
          /\ Wanted(fsys.entries[e], request.subtasks)
          /\ ~fsys.entries[e].ok
          /\ stack' = SetTop([Top EXCEPT
                                !.todo = IF visits[e] = 0 THEN @ ELSE @ \ {e}])
          /\ visits' = [visits EXCEPT ![e] = @ + 1]
    /\ UNCHANGED <<fsys, request, phase, scanned, response, nameVars, contentVars, uiVars, moreVars>>

\* Lines 166-168, 194-196: statSync or readFileSync throws, the inner catch
\* logs the error and the loop goes on
ReadFileFails ==
    /\ phase = "scanning"
    /\ Top.at = "loop"
    /\ \E e \in Top.todo :
          /\ Wanted(fsys.entries[e], request.subtasks)
          /\ ~fsys.entries[e].ok
          /\ stack' = SetTop([Top EXCEPT !.todo = afterReadError(@, e)])
          /\ visits' = [visits EXCEPT ![e] = @ + 1]
    /\ UNCHANGED <<fsys, request, phase, scanned, response, nameVars, contentVars, uiVars, moreVars>>

\* Line 203, and lines 157-158 in the caller
ReturnFromDirectory ==
    /\ phase = "scanning"
    /\ Top.at = "loop"
    /\ Top.todo = {}
    /\ IF Len(stack) = 1
       THEN /\ scanned' = Top.files
            /\ phase' = "scanned"
            /\ stack' = <<>>
       ELSE /\ stack' = [DropLast(stack) EXCEPT
                            ![Len(stack) - 1].files = @ \o Top.files]
            /\ UNCHANGED <<scanned, phase>>
    /\ UNCHANGED <<fsys, request, visits, response, nameVars, contentVars, uiVars, moreVars>>

(***************************************************************************)
(* GET /api/files: the response                                            *)
(***************************************************************************)
RECURSIVE SeqOfSet(_)
SeqOfSet(S) ==
    IF S = {} THEN <<>>
    ELSE LET x == CHOOSE y \in S : TRUE IN <<x>> \o SeqOfSet(S \ {x})

NonEmpty(str) == str # <<>>

\* Lines 226-236: the names of the directories right under the root, sorted
projectFoldersOf(tree) ==
    IF tree.root = "ok"
    THEN sortStrings(SeqOfSet({NameOfEntry(tree.entries[i]) : i \in
             {j \in 1..Len(tree.entries) :
                 tree.entries[j].parent = 0 /\ KindOf(tree.entries[j]) = "dir"}}))
    ELSE <<>>

\* The summary with the dates left in the order of the files
summaryOfDatesAsScanned(files) ==
    LET allEvents   == Concat(MapField(files, "events"))
        dates       == SelectSeq(MapField(files, "date"), NonEmpty)
        sortedDates == dates
    IN  [totalEvents       |-> Len(allEvents),
         uniqueEventTypes  |-> sortStrings(Unique(MapField(allEvents, "eventName"))),
         uniqueCameraTypes |-> sortStrings(Unique(MapField(allEvents, "camera"))),
         uniqueProjects    |-> sortStrings(Unique(MapField(files, "project"))),
         uniqueVehicles    |-> sortStrings(Unique(MapField(files, "vehicle"))),
         dateRange         |->
             [earliest |-> IF sortedDates = <<>> THEN <<>> ELSE sortedDates[1],
              latest   |-> IF sortedDates = <<>> THEN <<>>
                           ELSE sortedDates[Len(sortedDates)]]]

\* Lines 239-251
summaryOf(files) ==
    LET allEvents   == Concat(MapField(files, "events"))
        dates       == SelectSeq(MapField(files, "date"), NonEmpty)
        sortedDates == sortStrings(dates)
    IN  [totalEvents       |-> Len(allEvents),
         uniqueEventTypes  |-> sortStrings(Unique(MapField(allEvents, "eventName"))),
         uniqueCameraTypes |-> sortStrings(Unique(MapField(allEvents, "camera"))),
         uniqueProjects    |-> sortStrings(Unique(MapField(files, "project"))),
         uniqueVehicles    |-> sortStrings(Unique(MapField(files, "vehicle"))),
         dateRange         |->
             [earliest |-> IF sortedDates = <<>> THEN <<>> ELSE sortedDates[1],
              latest   |-> IF sortedDates = <<>> THEN <<>>
                           ELSE sortedDates[Len(sortedDates)]]]

\* The response echoing the subtasks as the scan used them
responseOfBareSubtasks(mainTicket, subtasks, projectFolders, files) ==
    [status         |-> 200,
     mainTicket     |-> mainTicket,
     subtasks       |-> subtasks,
     totalFiles     |-> Len(files),
     projectFolders |-> projectFolders,
     files          |-> sortFiles(files),
     summary        |-> summaryOf(files)]

\* Lines 253-267
responseOf(mainTicket, subtasks, projectFolders, files) ==
    [status         |-> 200,
     mainTicket     |-> mainTicket,
     subtasks       |-> [i \in 1..Len(subtasks) |-> DatacoPrefix \o subtasks[i]],
     totalFiles     |-> Len(files),
     projectFolders |-> projectFolders,
     files          |-> sortFiles(files),
     summary        |-> summaryOf(files)]

\* GET, lines 225-292. Writing the scan log (lines 270-290) is wrapped in its
\* own try and changes nothing of the response.
Respond ==
    /\ phase = "scanned"
    /\ response' = responseOf(request.mainTicket.value, request.subtasks,
                              projectFoldersOf(fsys), scanned)
    /\ phase' = "responded"
    /\ UNCHANGED <<fsys, request, stack, scanned, visits, nameVars, contentVars, uiVars, moreVars>>

(***************************************************************************)
(* The page: filteredFiles                                                 *)
(***************************************************************************)
MaxRows == 3

\* useState<FileSearchResponse | null>(null)
NoFileData == [loaded |-> FALSE]

\* useState<FilterState>({...})
InitialFilters ==
    [selectedSubtasks    |-> {},
     selectedEventTypes  |-> {},
     selectedCameraTypes |-> {},
     selectedProjects    |-> {},
     selectedVehicles    |-> {},
     sortBy              |-> "fileName",
     sortOrder           |-> "asc"]

FilterIdle ==
    /\ pageFileData = NoFileData
    /\ filters = InitialFilters
    /\ filtered = NotCalled

\* No file list handed over
NoFiles == [given |-> FALSE]

SummaryIdle ==
    /\ summaryArg = NoFiles
    /\ summaryRet = NotCalled

\* useState<JiraTicket | null>(null)
NoTicket == [loaded |-> FALSE]

Members(seq) == {seq[i] : i \in 1..Len(seq)}

\* encodeURIComponent(s), for the characters that occur
EncodeChar(c) ==
    CASE c = "," -> <<"%", "2", "C">>
      [] c = " " -> <<"%", "2", "0">>
      [] OTHER   -> <<c>>

encodeURIComponent(s) == Concat([i \in 1..Len(s) |-> EncodeChar(s[i])])

\* The value searchParams.get(name) returns for an encoded parameter
RECURSIVE decodeURIComponent(_)
decodeURIComponent(s) ==
    IF s = <<>> THEN <<>>
    ELSE IF s[1] = "%" /\ Len(s) >= 3
         THEN LET code == SubSeq(s, 2, 3) IN
              (CASE code = <<"2", "C">> -> <<",">>
                 [] code = <<"2", "0">> -> <<" ">>
                 [] OTHER               -> SubSeq(s, 1, 3))
              \o decodeURIComponent(SubSeq(s, 4, Len(s)))
         ELSE <<s[1]>> \o decodeURIComponent(Tail(s))

\* What the user types into the search box; Try Example writes 13665
ExampleTicket == <<"1", "3", "6", "6", "5">>
TypedValues == {<<" ", "7">>}
BoxValues == {<<>>, ExampleTicket} \cup TypedValues

\* The ticket parameters of /api/jira the page can send
TicketInputs == {encodeURIComponent(Trim(v)) : v \in BoxValues} \ {<<>>}

\* The page as it is first rendered
PageIdle ==
    /\ searchValue = <<>>
    /\ viewState = "search"
    /\ ticketData = NoTicket
    /\ errorMessage = ""
    /\ timers = [v \in BoxValues |-> 0]
    /\ lookups = [t \in TicketInputs |-> 0]
    /\ scanQueue = <<>>

JiraIdle == jira = [phase |-> "off"]

MoreIdle == SummaryIdle /\ PageIdle /\ JiraIdle

\* Event and camera types tested on every value of the file
passesFiltersEveryValue(file, f) ==
    /\ f.selectedSubtasks # {} =>
          DatacoPrefix \o file.datacoNumber \in f.selectedSubtasks
    /\ f.selectedProjects # {} => file.project \in f.selectedProjects
    /\ f.selectedVehicles # {} => file.vehicle \in f.selectedVehicles
    /\ f.selectedEventTypes # {} =>
          \A i \in 1..Len(file.uniqueEvents) :
              file.uniqueEvents[i] \in f.selectedEventTypes
    /\ f.selectedCameraTypes # {} =>
          \A i \in 1..Len(file.uniqueCameras) :
              file.uniqueCameras[i] \in f.selectedCameraTypes

\* A selection that lets everything pass
passesFiltersWhenSelected(file, f) ==
    /\ DatacoPrefix \o file.datacoNumber \in f.selectedSubtasks
    /\ file.project \in f.selectedProjects
    /\ file.vehicle \in f.selectedVehicles
    /\ \E i \in 1..Len(file.uniqueEvents) :
          file.uniqueEvents[i] \in f.selectedEventTypes
    /\ \E i \in 1..Len(file.uniqueCameras) :
          file.uniqueCameras[i] \in f.selectedCameraTypes

\* The callback of fileData.files.filter: an empty selection lets every
\* file pass, another one the files that have one of the selected values.
passesFilters(file, f) ==
    /\ f.selectedSubtasks # {} =>
          DatacoPrefix \o file.datacoNumber \in f.selectedSubtasks
    /\ f.selectedProjects # {} => file.project \in f.selectedProjects
    /\ f.selectedVehicles # {} => file.vehicle \in f.selectedVehicles
    /\ f.selectedEventTypes # {} =>
          \E i \in 1..Len(file.uniqueEvents) :
              file.uniqueEvents[i] \in f.selectedEventTypes
    /\ f.selectedCameraTypes # {} =>
          \E i \in 1..Len(file.uniqueCameras) :
              file.uniqueCameras[i] \in f.selectedCameraTypes

\* The comparison whatever the sort order
compareAscending(a, b, f) ==
    CASE f.sortBy = "date"       -> localeCompare(a.date, b.date)
      [] f.sortBy = "project"    -> localeCompare(a.project, b.project)
      [] f.sortBy = "vehicle"    -> localeCompare(a.vehicle, b.vehicle)
      [] f.sortBy = "eventCount" -> a.eventCount - b.eventCount
      [] OTHER                   -> localeCompare(a.fileName, b.fileName)

\* The callback of filtered.sort
compareFiltered(a, b, f) ==
    LET comparison ==
          CASE f.sortBy = "date"       -> localeCompare(a.date, b.date)
            [] f.sortBy = "project"    -> localeCompare(a.project, b.project)
            [] f.sortBy = "vehicle"    -> localeCompare(a.vehicle, b.vehicle)
            [] f.sortBy = "eventCount" -> a.eventCount - b.eventCount
            [] OTHER                   -> localeCompare(a.fileName, b.fileName)
    IN  IF f.sortOrder = "asc" THEN comparison ELSE -comparison

\* filtered.sort((a, b) => ...)
RECURSIVE sortFiltered(_, _)
sortFiltered(files, f) ==
    IF files = <<>> THEN <<>>
    ELSE LET front == sortFiltered(DropLast(files), f)
             last  == files[Len(files)]
         IN  InsertBehind(front, last,
                 {i \in 1..Len(front) : compareFiltered(front[i], last, f) <= 0})

filteredFiles(data, f) ==
    IF ~data.loaded THEN <<>>
    ELSE LET keep(file) == passesFilters(file, f) IN
         sortFiltered(SelectSeq(data.files, keep), f)

\* The record of catalog entry item found at path, its body holding n event
\* lines that repeat those of the catalog's body.
RowOf(item, path, n) ==
    LET row == fileDataOf[item] IN
    [row EXCEPT !.filePath = path,
                !.events = [i \in 1..n |-> row.events[((i - 1) % Len(row.events)) + 1]],
                !.eventCount = n]

Rows ==
    {RowOf(2, <<Catalog[2].name>>, 3),
     RowOf(1, <<"d", Catalog[1].name>>, 0),
     RowOf(3, <<Catalog[3].name>>, 7),
     RowOf(4, <<Catalog[4].name>>, 3)}

RowLists == UNION {[1..n -> Rows] : n \in 0..MaxRows}

SortKeys == {"fileName", "date", "project", "vehicle", "eventCount", "size"}

\* The states of the filters: no selection, one, or all five
FilterStates ==
    LET Selected(f) ==
          {k \in {"selectedSubtasks", "selectedEventTypes", "selectedCameraTypes",
                  "selectedProjects", "selectedVehicles"} : f[k] # {}}
    IN  {f \in [selectedSubtasks    : {{}, {DatacoPrefix \o <<"4", "2">>}},
                selectedEventTypes  : {{}, {<<"H", "o", "n", "k">>}},
                selectedCameraTypes : {{}, {<<"C", "a", "m", "B">>}},
                selectedProjects    : {{}, {<<"B">>}},
                selectedVehicles    : {{}, {<<"V", "E", "H">>}},
                sortBy              : SortKeys,
                sortOrder           : {"asc", "desc"}] :
           Cardinality(Selected(f)) \in {0, 1, 5}}

InitFilter ==
    /\ pageFileData \in {[loaded |-> TRUE, files |-> rows] : rows \in RowLists}
    /\ filters \in FilterStates
    /\ filtered = NotCalled

CallFilteredFiles ==
    /\ filtered = NotCalled
    /\ pageFileData.loaded
    /\ filtered' = Returned(filteredFiles(pageFileData, filters))
    /\ UNCHANGED <<pageFileData, filters, nameVars, contentVars, scanVars, moreVars>>

(***************************************************************************)
(* The summary applied to one file list                                    *)
(***************************************************************************)
\* The date tokens of the records: 31 January, 1 February and 1 January 2024
\* and 15 June 2023
SummaryDates ==
    {<<"3", "1", "0", "1", "2", "4">>, <<"0", "1", "0", "2", "2", "4">>,
     <<"0", "1", "0", "1", "2", "4">>, <<"1", "5", "0", "6", "2", "3">>}

\* The record of the catalog's one-event file under another date token
DatedRow(date) ==
    [fileDataOf[2] EXCEPT !.date = formatDate(date), !.filePath = <<date>>]

DatedRowLists == UNION {[1..n -> {DatedRow(d) : d \in SummaryDates}] : n \in 0..MaxRows}

InitSummary ==
    /\ summaryArg \in {[given |-> TRUE, files |-> rows] : rows \in DatedRowLists}
    /\ summaryRet = NotCalled

CallSummaryOf ==
    /\ summaryRet = NotCalled
    /\ summaryArg.given
    /\ summaryRet' = Returned(summaryOf(summaryArg.files))
    /\ UNCHANGED <<summaryArg, nameVars, contentVars, scanVars, uiVars, pageVars, jira>>

(***************************************************************************)
(* The page: its views, its handlers and its requests                      *)
(***************************************************************************)
MaxTimers == 1
MaxLookups == 1
MaxScans == 1

Pending(bag) ==
    LET RECURSIVE Sum(_)
        Sum(S) == IF S = {} THEN 0
                  ELSE LET x == CHOOSE y \in S : TRUE IN bag[x] + Sum(S \ {x})
    IN  Sum(DOMAIN bag)

\* What JIRA holds under a ticket: the subtasks of the ticket, or none
SubtaskKeys == <<DatacoPrefix \o <<"4", "2">>, DatacoPrefix \o <<"7">>>>
SubtaskLists == {<<>>, SubtaskKeys}

\* The key /api/jira looks up for a ticket parameter
fullTicketKey(ticketNumber) ==
    IF StartsWith(ticketNumber, DatacoPrefix) THEN ticketNumber
    ELSE DatacoPrefix \o ticketNumber

\* The JiraTicket /api/jira answers with, its summaries left out
JiraTicket(ticketNumber, subtasks) ==
    [loaded |-> TRUE, key |-> fullTicketKey(ticketNumber), subtasks |-> subtasks]

\* The messages of the failed lookups
LookupErrors == {"Ticket not found"}

\* The directory tree the scans of the page run over: under the root a
\* directory and the files of tickets 42 and 7, in the directory a file of
\* ticket 42 that cannot be read and an entry that is no file
PageTree ==
    <<EntryOf(0, 9, TRUE), EntryOf(0, 2, TRUE),
      EntryOf(1, 4, TRUE), EntryOf(1, 3, FALSE), EntryOf(1, 8, TRUE)>>

\* The server before a request
ServerIdle ==
    /\ request = NoRequest
    /\ phase = "idle"
    /\ stack = <<>>
    /\ scanned = <<>>
    /\ visits = [i \in 0..Len(fsys.entries) |-> 0]
    /\ response = NoResponse

InitPage ==
    /\ fsys = [root |-> "ok", entries |-> PageTree]
    /\ ServerIdle
    /\ PageIdle

\* handleSearch as the render that saw v in the search box built it
handleSearch(v) ==
    IF Trim(v) = <<>>
    THEN /\ errorMessage' = "Please enter a ticket number"
         /\ viewState' = "error"
         /\ UNCHANGED lookups
    ELSE /\ Pending(lookups) < MaxLookups
         /\ viewState' = "loading"
         /\ errorMessage' = ""
         /\ lookups' = [lookups EXCEPT ![encodeURIComponent(Trim(v))] = @ + 1]

\* The search box, onChange
TypeSearchValue ==
    /\ viewState = "search"
    /\ \E v \in TypedValues : v # searchValue /\ searchValue' = v
    /\ UNCHANGED <<viewState, ticketData, errorMessage, timers, lookups, scanQueue,
                   jira, summaryVars, nameVars, contentVars, scanVars, uiVars>>

\* The Search Ticket button, and Enter in the search box
ClickSearch ==
    /\ viewState = "search"
    /\ handleSearch(searchValue)
    /\ UNCHANGED <<searchValue, ticketData, timers, scanQueue,
                   jira, summaryVars, nameVars, contentVars, scanVars, uiVars>>

\* The Try Example button: the timer is handed the handleSearch of the
\* render the click happens in
ClickTryExample ==
    /\ viewState = "search"
    /\ Pending(timers) < MaxTimers
    /\ searchValue' = ExampleTicket
    /\ timers' = [timers EXCEPT ![searchValue] = @ + 1]
    /\ UNCHANGED <<viewState, ticketData, errorMessage, lookups, scanQueue,
                   jira, summaryVars, nameVars, contentVars, scanVars, uiVars>>

\* The timer of Try Example expires
TimerFires ==
    /\ \E v \in BoxValues :
          /\ timers[v] > 0
          /\ timers' = [timers EXCEPT ![v] = @ - 1]
          /\ handleSearch(v)
    /\ UNCHANGED <<searchValue, ticketData, scanQueue,
                   jira, summaryVars, nameVars, contentVars, scanVars, uiVars>>

\* handleSearch, lines 131-133: the response of /api/jira is ok
LookupSucceeds ==
    /\ \E q \in TicketInputs, subtasks \in SubtaskLists :
          /\ lookups[q] > 0
          /\ lookups' = [lookups EXCEPT ![q] = @ - 1]
          /\ ticketData' = JiraTicket(decodeURIComponent(q), subtasks)
    /\ viewState' = "results"
    /\ UNCHANGED <<searchValue, errorMessage, timers, scanQueue,
                   jira, summaryVars, nameVars, contentVars, scanVars, uiVars>>

\* handleSearch, lines 126-129 and 134-138: the response is not ok
LookupFails ==
    /\ \E q \in TicketInputs :
          /\ lookups[q] > 0
          /\ lookups' = [lookups EXCEPT ![q] = @ - 1]
    /\ \E message \in LookupErrors : errorMessage' = message
    /\ viewState' = "error"
    /\ UNCHANGED <<searchValue, ticketData, timers, scanQueue,
                   jira, summaryVars, nameVars, contentVars, scanVars, uiVars>>

\* The results view is drawn
ResultsShown == viewState = "results" /\ ticketData.loaded

\* The files view is drawn
FilesShown == viewState = "files-results" /\ pageFileData.loaded

\* The Scan Files button: handleSearchFiles up to its fetch
ClickScanFiles ==
    /\ ResultsShown
    /\ Len(scanQueue) + (IF phase = "idle" THEN 0 ELSE 1) < MaxScans
    /\ viewState' = "files-loading"
    /\ errorMessage' = ""
    /\ scanQueue' = Append(scanQueue,
          [mainTicket |-> encodeURIComponent(ticketData.key),
           subtasks   |-> encodeURIComponent(JoinWith(ticketData.subtasks, <<",">>))])
    /\ UNCHANGED <<searchValue, ticketData, timers, lookups,
                   jira, summaryVars, nameVars, contentVars, scanVars, uiVars>>

\* The parameters GET /api/files reads from the request at the head
mainTicketOf(query) == Given(decodeURIComponent(query.mainTicket))
subtasksParamOf(query) == Given(decodeURIComponent(query.subtasks))

\* GET /api/files, lines 207-216, for a request of the page
RejectPageRequest ==
    /\ phase = "idle"
    /\ scanQueue # <<>>
    /\ LET mainTicket    == mainTicketOf(Head(scanQueue))
           subtasksParam == subtasksParamOf(Head(scanQueue))
       IN  /\ ~Required(mainTicket, subtasksParam)
           /\ request' = [received |-> TRUE, mainTicket |-> mainTicket,
                          subtasksParam |-> subtasksParam]
    /\ response' = [status |-> 400,
                    error  |-> "mainTicket and subtasks parameters are required"]
    /\ phase' = "responded"
    /\ scanQueue' = Tail(scanQueue)
    /\ UNCHANGED <<searchValue, viewState, ticketData, errorMessage, timers, lookups,
                   fsys, stack, scanned, visits,
                   jira, summaryVars, nameVars, contentVars, uiVars>>

\* GET /api/files, lines 207-223, for a request of the page
StartPageScan ==
    /\ phase = "idle"
    /\ scanQueue # <<>>
    /\ LET mainTicket    == mainTicketOf(Head(scanQueue))
           subtasksParam == subtasksParamOf(Head(scanQueue))
       IN  /\ Required(mainTicket, subtasksParam)
           /\ request' = [received |-> TRUE, mainTicket |-> mainTicket,
                          subtasksParam |-> subtasksParam,
                          subtasks |-> subtasksOf(subtasksParam.value)]
    /\ phase' = "scanning"
    /\ stack' = <<Activation(0)>>
    /\ scanQueue' = Tail(scanQueue)
    /\ UNCHANGED <<searchValue, viewState, ticketData, errorMessage, timers, lookups,
                   fsys, scanned, visits, response,
                   jira, summaryVars, nameVars, contentVars, uiVars>>

\* The filters handleSearchFiles and Reset Filters set for the file data
defaultFilters(data) ==
    [selectedSubtasks    |-> Members(data.subtasks),
     selectedEventTypes  |-> {},
     selectedCameraTypes |-> {},
     selectedProjects    |-> Members(data.summary.uniqueProjects),
     selectedVehicles    |-> Members(data.summary.uniqueVehicles),
     sortBy              |-> "fileName",
     sortOrder           |-> "asc"]

\* The server is done with the request
ServerFreed ==
    /\ request' = NoRequest
    /\ phase' = "idle"
    /\ stack' = <<>>
    /\ scanned' = <<>>
    /\ visits' = [i \in 0..Len(fsys.entries) |-> 0]
    /\ response' = NoResponse

\* handleSearchFiles, lines 156-171: the response of /api/files is ok
ScanSucceeds ==
    /\ phase = "responded"
    /\ response.status = 200
    /\ pageFileData' = [loaded     |-> TRUE,
                        mainTicket |-> response.mainTicket,
                        subtasks   |-> response.subtasks,
                        totalFiles |-> response.totalFiles,
                        files      |-> response.files,
                        summary    |-> response.summary]
    /\ filters' = defaultFilters(pageFileData')
    /\ viewState' = "files-results"
    /\ ServerFreed
    /\ UNCHANGED <<searchValue, ticketData, errorMessage, timers, lookups, scanQueue,
                   fsys, filtered, jira, summaryVars, nameVars, contentVars>>

\* handleSearchFiles, lines 151-154 and 172-176: the response is not ok
ScanFails ==
    /\ phase = "responded"
    /\ response.status # 200
    /\ errorMessage' = response.error
    /\ viewState' = "error"
    /\ ServerFreed
    /\ UNCHANGED <<searchValue, ticketData, timers, lookups, scanQueue,
                   fsys, uiVars, jira, summaryVars, nameVars, contentVars>>

\* handleBackToSearch: Back to Search of the error view, New Search of the
\* results and files views
BackToSearch ==
    /\ viewState = "error" \/ ResultsShown \/ FilesShown
    /\ viewState' = "search"
    /\ ticketData' = NoTicket
    /\ pageFileData' = NoFileData
    /\ errorMessage' = ""
    /\ filters' = InitialFilters
    /\ UNCHANGED <<searchValue, timers, lookups, scanQueue, filtered,
                   jira, summaryVars, nameVars, contentVars, scanVars>>

\* handleBackToTickets
BackToTickets ==
    /\ FilesShown
    /\ viewState' = "results"
    /\ pageFileData' = NoFileData
    /\ UNCHANGED <<searchValue, ticketData, errorMessage, timers, lookups, scanQueue,
                   filters, filtered,
                   jira, summaryVars, nameVars, contentVars, scanVars>>

\* The set with x put in when it is out and taken out when it is in
Toggled(S, x) == IF x \in S THEN S \ {x} ELSE S \cup {x}

\* A checkbox of the subtask filter
ToggleSubtask ==
    /\ FilesShown
    /\ \E subtask \in Members(pageFileData.subtasks) :
          filters' = [filters EXCEPT !.selectedSubtasks = Toggled(@, subtask)]
    /\ UNCHANGED <<pageFileData, filtered, pageVars,
                   jira, summaryVars, nameVars, contentVars, scanVars>>

\* A checkbox of the event type filter
ToggleEventType ==
    /\ FilesShown
    /\ \E event \in Members(pageFileData.summary.uniqueEventTypes) :
          filters' = [filters EXCEPT !.selectedEventTypes = Toggled(@, event)]
    /\ UNCHANGED <<pageFileData, filtered, pageVars,
                   jira, summaryVars, nameVars, contentVars, scanVars>>

\* The keys of the Sort By select the model offers
SortChoices == {"fileName", "eventCount"}

\* The Sort By select
SetSortBy ==
    /\ FilesShown
    /\ \E value \in SortChoices :
          /\ value # filters.sortBy
          /\ filters' = [filters EXCEPT !.sortBy = value]
    /\ UNCHANGED <<pageFileData, filtered, pageVars,
                   jira, summaryVars, nameVars, contentVars, scanVars>>

\* The Descending checkbox
ToggleSortOrder ==
    /\ FilesShown
    /\ filters' = [filters EXCEPT
                      !.sortOrder = IF @ = "asc" THEN "desc" ELSE "asc"]
    /\ UNCHANGED <<pageFileData, filtered, pageVars,
                   jira, summaryVars, nameVars, contentVars, scanVars>>

\* The Reset Filters button
ResetFilters ==
    /\ FilesShown
    /\ filters' = defaultFilters(pageFileData)
    /\ UNCHANGED <<pageFileData, filtered, pageVars,
                   jira, summaryVars, nameVars, contentVars, scanVars>>

(***************************************************************************)
(* GET /api/jira                                                           *)
(***************************************************************************)
MaxSubtasks == 2

\* The ticket parameter of the request
TicketParams ==
    {Absent, Given(<<>>), Given(<<"7">>), Given(DatacoPrefix \o <<"7">>)}

\* The keys of the subtasks JIRA can hold under a ticket
IssueKeys ==
    {DatacoPrefix \o <<"4", "2">>, DatacoPrefix \o <<"7">>,
     DatacoPrefix \o <<"1", "3">>}

\* fields.subtasks of the issue JIRA answers with: missing, or up to
\* MaxSubtasks subtasks under different keys
IssueSubtasks ==
    {Absent} \cup
    {Given([i \in 1..Len(keys) |-> [key |-> keys[i]]]) :
        keys \in UNION {{f \in [1..m -> IssueKeys] :
                            \A i, j \in 1..m : i # j => f[i] # f[j]} :
                        m \in 0..MaxSubtasks}}

\* How the fetch of one subtask ends: ok with a summary, ok without one,
\* not ok, or with an exception
FetchOutcomes == {"ok", "noSummary", "notOk", "threw"}

\* The summary JIRA holds for a subtask
SummaryHeld == "Summary of the subtask"

\* Lines 84-115: the entry the callback of subtasks.map returns
detailOf(subtask, outcome) ==
    [key     |-> subtask.key,
     summary |-> CASE outcome = "ok"        -> SummaryHeld
                   [] outcome = "noSummary" -> "No summary available"
                   [] outcome = "notOk"     -> "Unable to fetch summary"
                   [] OTHER                 -> "Error fetching summary"]

\* The entries in the order their fetches ended
promiseAllAsSettled(details, order) ==
    [k \in 1..Len(order) |-> details[order[k]]]

\* Promise.all: the entries in the order of the subtasks
promiseAll(details, order) == [i \in 1..Len(details) |-> details[i]]

\* The handler before a request, the credentials configured or not
JiraWaiting(configured) ==
    [phase      |-> "idle",
     configured |-> configured,
     ticket     |-> Absent,
     fetched    |-> FALSE,
     subtasks   |-> <<>>,
     outcomes   |-> <<>>,
     details    |-> <<>>,
     order      |-> <<>>,
     response   |-> NoResponse]

InitJira == jira \in {JiraWaiting(configured) : configured \in BOOLEAN}

JiraUnchanged ==
    UNCHANGED <<nameVars, contentVars, scanVars, uiVars, summaryVars, pageVars>>

\* Lines 36-40: no ticket parameter
RejectLookup ==
    /\ jira.phase = "idle"
    /\ \E ticket \in TicketParams :
          /\ Falsy(ticket)
          /\ jira' = [jira EXCEPT
                        !.ticket = ticket,
                        !.phase = "responded",
                        !.response = [status |-> 400,
                                      error  |-> "Ticket number is required"]]
    /\ JiraUnchanged

\* Lines 42-44: the credentials are not configured
RejectUnconfigured ==
    /\ jira.phase = "idle"
    /\ ~jira.configured
    /\ \E ticket \in TicketParams :
          /\ ~Falsy(ticket)
          /\ jira' = [jira EXCEPT
                        !.ticket = ticket,
                        !.phase = "responded",
                        !.response = [status |-> 500,
                                      error  |-> "JIRA credentials not configured"]]
    /\ JiraUnchanged

\* Lines 46-67: the main ticket is fetched
StartLookup ==
    /\ jira.phase = "idle"
    /\ jira.configured
    /\ \E ticket \in TicketParams :
          /\ ~Falsy(ticket)
          /\ jira' = [jira EXCEPT !.ticket = ticket, !.phase = "fetching"]
    /\ JiraUnchanged

\* Lines 69-72: JIRA answers 404
MainFetchNotFound ==
    /\ jira.phase = "fetching"
    /\ jira' = [jira EXCEPT
                  !.phase = "responded",
                  !.response = [status |-> 404, error |-> "Ticket not found"]]
    /\ JiraUnchanged

\* Lines 57-67, 73 and 147-153: the fetch throws or the answer is not ok and
\* not 404, the outer catch answers
MainFetchFails ==
    /\ jira.phase = "fetching"
    /\ jira' = [jira EXCEPT
                  !.phase = "responded",
                  !.response = [status |-> 500,
                                error  |-> "Failed to fetch JIRA data"]]
    /\ JiraUnchanged

\* Lines 76-95: the main ticket is there; subtasks.map starts one fetch per
\* subtask
MainFetchSucceeds ==
    /\ jira.phase = "fetching"
    /\ \E found \in IssueSubtasks :
          LET subtasks == IF found.present THEN found.value ELSE <<>> IN
          jira' = [jira EXCEPT
                     !.phase = "gathering",
                     !.fetched = TRUE,
                     !.subtasks = subtasks,
                     !.outcomes = [i \in 1..Len(subtasks) |-> "pending"],
                     !.details = [i \in 1..Len(subtasks) |-> <<>>]]
    /\ JiraUnchanged

\* Lines 84-115: the fetch of one subtask ends, in any order among them
SubtaskFetchSettles ==
    /\ jira.phase = "gathering"
    /\ \E i \in 1..Len(jira.subtasks), outcome \in FetchOutcomes :
          /\ jira.outcomes[i] = "pending"
          /\ jira' = [jira EXCEPT
                        !.outcomes[i] = outcome,
                        !.details[i] = detailOf(jira.subtasks[i], outcome),
                        !.order = Append(@, i)]
    /\ JiraUnchanged

\* Lines 82 and 119-145: every fetch has ended, Promise.all resolves and the
\* result is returned; writing the log is wrapped in its own try
RespondTicket ==
    /\ jira.phase = "gathering"
    /\ \A i \in 1..Len(jira.subtasks) : jira.outcomes[i] # "pending"
    /\ jira' = [jira EXCEPT
                  !.phase = "responded",
                  !.response = [status   |-> 200,
                                key      |-> fullTicketKey(jira.ticket.value),
                                subtasks |-> promiseAll(jira.details, jira.order)]]
    /\ JiraUnchanged

(***************************************************************************)
(* Specifications                                                          *)
(***************************************************************************)
\* One request to GET /api/files over one directory tree
Init == InitScan /\ NameIdle /\ ContentIdle /\ FilterIdle /\ MoreIdle

Next ==
    \/ RejectRequest
    \/ StartScan
    \/ ListDirectory
    \/ EnterSubdirectory
    \/ SkipEntry
    \/ ReadFile
    \/ ReadFileFails
    \/ ReturnFromDirectory
    \/ Respond

Spec == Init /\ [][Next]_vars

\* A step of scanDirectory
ScanStep ==
    \/ ListDirectory
    \/ EnterSubdirectory
    \/ SkipEntry
    \/ ReadFile
    \/ ReadFileFails
    \/ ReturnFromDirectory

\* scanDirectory is not suspended for ever: its steps are synchronous file
\* system calls, and the promises it awaits are its own
SpecTerminating == Spec /\ WF_vars(ScanStep)

\* The page, its timers, its lookups and its scans by GET /api/files
InitPageSpec ==
    InitPage /\ NameIdle /\ ContentIdle /\ FilterIdle /\ SummaryIdle /\ JiraIdle

NextPage ==
    \/ TypeSearchValue
    \/ ClickSearch
    \/ ClickTryExample
    \/ TimerFires
    \/ LookupSucceeds
    \/ LookupFails
    \/ ClickScanFiles
    \/ RejectPageRequest
    \/ StartPageScan
    \/ ListDirectory
    \/ EnterSubdirectory
    \/ SkipEntry
    \/ ReadFile
    \/ ReadFileFails
    \/ ReturnFromDirectory
    \/ Respond
    \/ ScanSucceeds
    \/ ScanFails
    \/ BackToSearch
    \/ BackToTickets
    \/ ToggleSubtask
    \/ ToggleEventType
    \/ SetSortBy
    \/ ToggleSortOrder
    \/ ResetFilters

SpecPage == InitPageSpec /\ [][NextPage]_vars

\* One request to GET /api/jira
InitTicketSpec ==
    /\ InitJira
    /\ NameIdle /\ ContentIdle /\ ScanIdle /\ FilterIdle /\ SummaryIdle /\ PageIdle

NextTicket ==
    \/ RejectLookup
    \/ RejectUnconfigured
    \/ StartLookup
    \/ MainFetchNotFound
    \/ MainFetchFails
    \/ MainFetchSucceeds
    \/ SubtaskFetchSettles
    \/ RespondTicket

SpecTicket == InitTicketSpec /\ [][NextTicket]_vars

\* parseFileName applied to one file name
InitNameSpec == InitName /\ ContentIdle /\ ScanIdle /\ FilterIdle /\ MoreIdle

NextName == CallParseFileName

SpecName == InitNameSpec /\ [][NextName]_vars

\* parseJumpFileContent applied to one body
InitContentSpec == InitContent /\ NameIdle /\ ScanIdle /\ FilterIdle /\ MoreIdle

NextContent == CallParseJumpFileContent

SpecContent == InitContentSpec /\ [][NextContent]_vars

\* filteredFiles applied to one file list under one FilterState
InitFilterSpec == InitFilter /\ NameIdle /\ ContentIdle /\ ScanIdle /\ MoreIdle

NextFilter == CallFilteredFiles

SpecFilter == InitFilterSpec /\ [][NextFilter]_vars

\* The summary of any file list, or one request over one directory tree
InitSummaryOrScan ==
    \/ InitSummary /\ NameIdle /\ ContentIdle /\ ScanIdle /\ FilterIdle
          /\ PageIdle /\ JiraIdle
    \/ Init

NextSummaryOrScan == CallSummaryOf \/ Next

SpecSummaryOrScan == InitSummaryOrScan /\ [][NextSummaryOrScan]_vars

\* parseFileName on any name, or one request over one directory tree
InitNameOrScan == InitNameSpec \/ Init

NextNameOrScan == NextName \/ Next

SpecNameOrScan == InitNameOrScan /\ [][NextNameOrScan]_vars

\* parseJumpFileContent on any body, or one request over one directory tree
InitContentOrScan == InitContentSpec \/ Init

NextContentOrScan == NextContent \/ Next

SpecContentOrScan == InitContentOrScan /\ [][NextContentOrScan]_vars

(***************************************************************************)
(* The file name grammar and the matching files of a tree, stated without  *)
(* the pattern: by the pieces between underscores.                         *)
(***************************************************************************)
IsDigits(s) == \A i \in 1..Len(s) : s[i] \in Digit

TicketPart(last) ==
    SubSeq(last, Len(DatacoPrefix) + 1, Len(last) - Len(JumpExt))

\* <project>_<vehicle>_<6 digits>_<6 digits>_<digits>_<6 digits>_DATACO-<digits>.jump
InGrammar(name) ==
    LET piece == SplitChar(name, "_") IN
    /\ Len(piece) = 7
    /\ piece[1] # <<>> /\ piece[2] # <<>>
    /\ Len(piece[3]) = 6 /\ IsDigits(piece[3])
    /\ Len(piece[4]) = 6 /\ IsDigits(piece[4])
    /\ piece[5] # <<>> /\ IsDigits(piece[5])
    /\ Len(piece[6]) = 6 /\ IsDigits(piece[6])
    /\ Len(piece[7]) > Len(DatacoPrefix) + Len(JumpExt)
    /\ StartsWith(piece[7], DatacoPrefix)
    /\ EndsWith(piece[7], JumpExt)
    /\ IsDigits(TicketPart(piece[7]))

GrammarTicket(name) == TicketPart(SplitChar(name, "_")[7])

\* The accepted ticket set of the request being served
AcceptedTickets == {request.subtasks[i] : i \in 1..Len(request.subtasks)}

JumpFile(i) ==
    /\ KindOf(fsys.entries[i]) = "file"
    /\ EndsWith(NameOfEntry(fsys.entries[i]), JumpExt)

\* Entry i is a regular *.jump file in the grammar with an accepted ticket
Matching(i) ==
    /\ JumpFile(i)
    /\ InGrammar(NameOfEntry(fsys.entries[i]))
    /\ GrammarTicket(NameOfEntry(fsys.entries[i])) \in AcceptedTickets

\* Every directory above entry i can be listed
RECURSIVE Reached(_)
Reached(i) ==
    IF fsys.entries[i].parent = 0 THEN fsys.root = "ok"
    ELSE fsys.entries[fsys.entries[i].parent].ok
         /\ Reached(fsys.entries[i].parent)

RecordsAt(files, i) ==
    {k \in 1..Len(files) : files[k].filePath = PathOf(fsys.entries, i)}

Entries == 1..Len(fsys.entries)

Served == phase = "responded" /\ response.status = 200

(***************************************************************************)
(* C1                                                                      *)
(***************************************************************************)
\* The tree holds the single file PRJ_VEH_010124_120000_5_020124_DATACO-42.jump
\* with the body of catalog entry item, and the accepted ticket set is {"42"}.
C1_Scanned(item) ==
    /\ Served
    /\ fsys = [root |-> "ok", entries |-> <<EntryOf(0, item, TRUE)>>]
    /\ request.subtasks = <<TokensPRJ.ticket>>

C1_OneArtifact(eventCount) ==
    /\ Len(response.files) = 1
    /\ response.totalFiles = 1
    /\ response.files[1].project = TokensPRJ.project
    /\ response.files[1].vehicle = TokensPRJ.vehicle
    /\ response.files[1].datacoNumber = TokensPRJ.ticket
    /\ response.files[1].eventCount = eventCount
    /\ Len(response.files[1].events) = eventCount

C1_HonkEvent ==
    /\ response.files[1].events[1].clipNumber = <<"0", "0", "0", "7">>
    /\ response.files[1].events[1].camera = <<"C", "a", "m", "A">>
    /\ response.files[1].events[1].eventName = <<"H", "o", "n", "k">>

\* C1, as stated: the file whose body is the line
\* PRJ_VEH_010124_120000_5_020124_s1_s_Front_s60_7 CamA 100 Honk, scanned with
\* accepted tickets {"42"}, gives one record (PRJ, VEH, 42) with eventCount 1
\* and one event with clipNumber 0007, camera CamA, eventName Honk.
C1_SpecExample ==
    C1_Scanned(1) => C1_OneArtifact(1) /\ C1_HonkEvent

\* C1, amended: that body's track identifier carries the createDate token
\* after the session name, so the file gives one record (PRJ, VEH, 42) with
\* eventCount 0 and no event; the body whose track identifier starts with the
\* sessionName, PRJ_VEH_010124_120000_5_s1_s_Front_s60_7 CamA 100 Honk, gives
\* the record with eventCount 1 and the one event 0007, CamA, Honk.
C1_SessionExample ==
    /\ C1_Scanned(1) => C1_OneArtifact(0)
    /\ C1_Scanned(2) => C1_OneArtifact(1) /\ C1_HonkEvent

C1_Witness ==
    /\ C1_Scanned(1)
    /\ visits[1] = 1
    /\ response.totalFiles = 1

(***************************************************************************)
(* C2                                                                      *)
(***************************************************************************)
AllReadable ==
    /\ fsys.root = "ok"
    /\ \A i \in Entries : fsys.entries[i].ok

\* C2: over a tree whose directories and files are all readable, the scan
\* returns exactly one record for each regular *.jump file, at any depth,
\* whose name is in the grammar with a ticket in the accepted set, and no
\* other record; every record's datacoNumber is in the accepted set.
C2_OneRecordPerMatchingFile ==
    (phase \in {"scanned", "responded"} /\ request.received
       /\ "subtasks" \in DOMAIN request /\ AllReadable) =>
        /\ \A i \in Entries :
             Cardinality(RecordsAt(scanned, i)) = IF Matching(i) THEN 1 ELSE 0
        /\ Len(scanned) = Cardinality({i \in Entries : Matching(i)})
        /\ \A k \in 1..Len(scanned) :
             /\ scanned[k].datacoNumber \in AcceptedTickets
             /\ \E i \in Entries :
                  /\ Matching(i)
                  /\ scanned[k].filePath = PathOf(fsys.entries, i)
                  /\ scanned[k].fileName = NameOfEntry(fsys.entries[i])

\* A matching file below the root is returned, and the root holds a *.jump
\* file in the grammar whose ticket is not accepted.
C2_Witness ==
    /\ phase = "scanned"
    /\ AllReadable
    /\ \E i, j \in Entries :
         /\ fsys.entries[i].parent # 0
         /\ Matching(i)
         /\ RecordsAt(scanned, i) # {}
         /\ fsys.entries[j].parent = 0
         /\ JumpFile(j)
         /\ InGrammar(NameOfEntry(fsys.entries[j]))
         /\ ~Matching(j)

(***************************************************************************)
(* C3                                                                      *)
(***************************************************************************)
FailingFile(i) == Matching(i) /\ Reached(i) /\ ~fsys.entries[i].ok

\* C3: when reading a matching file fails, the scan still returns and the
\* request is served; the failing file has no record, and every matching
\* readable file under listable directories has its record.
C3_OnlyFailingFileOmitted ==
    (phase \in {"scanned", "responded"} /\ "subtasks" \in DOMAIN request
       /\ \E i \in Entries : FailingFile(i)) =>
        /\ phase = "responded" => response.status = 200
        /\ \A i \in Entries :
             /\ FailingFile(i) => RecordsAt(scanned, i) = {}
             /\ (Matching(i) /\ Reached(i) /\ fsys.entries[i].ok) =>
                  Cardinality(RecordsAt(scanned, i)) = 1

\* A read failed, and two records came from the failing file's directory.
C3_Witness ==
    /\ Served
    /\ \E i, j, k \in Entries :
         /\ FailingFile(i)
         /\ visits[i] = 1
         /\ j # k
         /\ fsys.entries[j].parent = fsys.entries[i].parent
         /\ fsys.entries[k].parent = fsys.entries[i].parent
         /\ RecordsAt(response.files, j) # {}
         /\ RecordsAt(response.files, k) # {}

(***************************************************************************)
(* C4                                                                      *)
(***************************************************************************)
\* C4: when the root is missing or cannot be listed, the scan returns no
\* record and the request is served: status 200, totalFiles 0, no files.
C4_RootUnavailable ==
    (fsys.root # "ok") =>
        /\ phase = "scanned" => scanned = <<>>
        /\ (phase = "responded" /\ "subtasks" \in DOMAIN request) =>
             /\ response.status = 200
             /\ response.totalFiles = 0
             /\ response.files = <<>>
             /\ response.summary.totalEvents = 0

\* The root cannot be listed although a matching file lies in it.
C4_Witness ==
    /\ Served
    /\ fsys.root = "unlistable"
    /\ \E i \in Entries : Matching(i) /\ fsys.entries[i].ok
    /\ response.totalFiles = 0

(***************************************************************************)
(* C5                                                                      *)
(***************************************************************************)
\* C5: in a served response, of two adjacent records of files the earlier
\* one's fileName does not compare greater than the later one's.
C5_FilesSorted ==
    Served =>
        \A k \in 1..(Len(response.files) - 1) :
            localeCompare(response.files[k].fileName,
                          response.files[k + 1].fileName) <= 0

\* The scan returned files in another order than the response lists them,
\* and code unit order would list them differently again.
C5_Witness ==
    /\ Served
    /\ Len(response.files) >= 2
    /\ response.files # scanned
    /\ \E k \in 1..(Len(response.files) - 1) :
         CodeUnitCompare(response.files[k].fileName,
                         response.files[k + 1].fileName) > 0

(***************************************************************************)
(* C6                                                                      *)
(***************************************************************************)
\* scanDirectory when every directory lists its entries in the order of
\* their indices: the records from entry i of dir onwards.
RECURSIVE ScanInIndexOrder(_, _)
ScanInIndexOrder(dir, i) ==
    IF i > Len(fsys.entries) THEN <<>>
    ELSE LET entry == fsys.entries[i]
             here  == IF entry.parent # dir THEN "skip"
                      ELSE IF KindOf(entry) = "dir"
                           THEN (IF entry.ok THEN "dir" ELSE "skip")
                      ELSE IF Wanted(entry, request.subtasks) /\ entry.ok
                           THEN "file" ELSE "skip"
             next  == IF here = "dir" THEN <<i, 1>> ELSE <<dir, i + 1>>
             rest  == ScanInIndexOrder(next[1], next[2])
         IN  CASE here = "skip" -> rest
               [] here = "file" -> <<fileRecord(fsys.entries, i)>> \o rest
               [] here = "dir"  -> rest \o ScanInIndexOrder(dir, i + 1)

FilesInIndexOrder ==
    IF fsys.root = "ok" THEN ScanInIndexOrder(0, 1) ELSE <<>>

\* C6, as stated: whatever the order in which the directories listed their
\* entries, the response has the files list and the summary that it has when
\* every directory lists its entries in index order.
C6_OrderIndependent ==
    Served =>
        /\ response.files = sortFiles(FilesInIndexOrder)
        /\ response.summary = summaryOf(FilesInIndexOrder)

(***************************************************************************)
(* C7                                                                      *)
(***************************************************************************)
\* No value came with the parameter: it was left out or it is empty
NotSupplied(param) == IF param.present THEN Len(param.value) = 0 ELSE TRUE

IdentifierMissing ==
    IF NotSupplied(request.mainTicket) THEN TRUE
    ELSE NotSupplied(request.subtasksParam)

NoScan ==
    /\ stack = <<>>
    /\ scanned = <<>>
    /\ \A i \in DOMAIN visits : visits[i] = 0

\* C7: a request without a value for mainTicket or for subtasks is answered
\* with status 400, no scan and no files or summary in the body; a request
\* with both is never answered without a scan having been started, and no
\* scan runs for a request lacking one.
C7_RejectedIffIdentifierMissing ==
    /\ (phase = "responded" /\ IdentifierMissing) =>
          /\ response.status = 400
          /\ NoScan
          /\ "files" \notin DOMAIN response
          /\ "summary" \notin DOMAIN response
    /\ (phase = "responded" /\ ~IdentifierMissing) =>
          /\ response.status = 200
          /\ visits[0] = 1 \/ fsys.root = "missing"
    /\ phase \in {"scanning", "scanned"} => ~IdentifierMissing

\* Rejected for its subtasks alone, over a tree a scan would have read.
C7_Witness ==
    /\ phase = "responded"
    /\ response.status = 400
    /\ request.mainTicket.present
    /\ ~NotSupplied(request.mainTicket)
    /\ NotSupplied(request.subtasksParam)
    /\ fsys.root = "ok"
    /\ fsys.entries # <<>>

(***************************************************************************)
(* C8                                                                      *)
(***************************************************************************)
OutsideGrammar(i) ==
    JumpFile(i) /\ ~InGrammar(NameOfEntry(fsys.entries[i]))

\* C8: parseFileName returns null for every name outside the grammar; a
\* scan meeting *.jump files with such names is served, has no record for
\* them, and has the record of every matching readable file it can reach.
C8_OutsideGrammarSkipped ==
    /\ (nameRet.called /\ ~InGrammar(nameArg)) => nameRet.value = NoMetadata
    /\ (phase = "responded" /\ "subtasks" \in DOMAIN request
          /\ \E i \in Entries : OutsideGrammar(i)) =>
          /\ response.status = 200
          /\ \A i \in Entries :
               /\ OutsideGrammar(i) =>
                    /\ metadataOf[fsys.entries[i].item] = NoMetadata
                    /\ RecordsAt(response.files, i) = {}
               /\ (Matching(i) /\ Reached(i) /\ fsys.entries[i].ok) =>
                    RecordsAt(response.files, i) # {}

\* A scan passed a *.jump file outside the grammar and returned another file
\* of its directory.
C8_Witness ==
    /\ Served
    /\ \E i, j \in Entries :
         /\ OutsideGrammar(i)
         /\ Reached(i)
         /\ fsys.entries[j].parent = fsys.entries[i].parent
         /\ RecordsAt(response.files, j) # {}

(***************************************************************************)
(* C9                                                                      *)
(***************************************************************************)
Slashed(raw) ==
    <<raw[1], raw[2], "/", raw[3], raw[4], "/", "2", "0", raw[5], raw[6]>>

Coloned(raw) ==
    <<raw[1], raw[2], ":", raw[3], raw[4], ":", raw[5], raw[6]>>

\* C9: for a name in the grammar made of the raw tokens project, vehicle,
\* date, time, swVersion, createDate and ticket, parseFileName returns
\* date DD/MM/20YY, time HH:MM:SS, createDate DD/MM/20YY, the ticket digits,
\* and sessionName project_vehicle_date_time_swVersion of the raw tokens.
C9_TokensFormatted ==
    (nameRet.called /\ nameTok.shape = "grammar") =>
        /\ InGrammar(nameArg)
        /\ nameRet.value.matched
        /\ nameRet.value.project = nameTok.t.project
        /\ nameRet.value.vehicle = nameTok.t.vehicle
        /\ nameRet.value.swVersion = nameTok.t.swVersion
        /\ nameRet.value.date = Slashed(nameTok.t.date)
        /\ nameRet.value.time = Coloned(nameTok.t.time)
        /\ nameRet.value.createDate = Slashed(nameTok.t.createDate)
        /\ nameRet.value.datacoNumber = nameTok.t.ticket
        /\ nameRet.value.sessionName =
             nameTok.t.project \o <<"_">> \o nameTok.t.vehicle \o <<"_">>
             \o nameTok.t.date \o <<"_">> \o nameTok.t.time \o <<"_">>
             \o nameTok.t.swVersion

\* A name whose date and createDate differ and whose version and ticket have
\* two digits has been parsed.
C9_Witness ==
    /\ nameRet.called
    /\ nameTok.shape = "grammar"
    /\ nameRet.value.matched
    /\ nameRet.value.date = <<"3", "1", "/", "1", "2", "/", "2", "0", "9", "9">>
    /\ nameRet.value.createDate # nameRet.value.date
    /\ Len(nameTok.t.swVersion) = 2
    /\ Len(nameTok.t.ticket) = 2

(***************************************************************************)
(* C10                                                                     *)
(***************************************************************************)
\* The clip token of an event's line: what follows the last underscore of
\* the line's first part.
FirstPart(line) ==
    LET gaps == {j \in 1..Len(line) : line[j] \in WhiteSpace} IN
    IF gaps = {} THEN line ELSE SubSeq(line, 1, MinOf(gaps) - 1)

ClipToken(line) ==
    LET first == FirstPart(line)
        marks == {j \in 1..Len(first) : first[j] = "_"}
    IN  SubSeq(first, MaxOf(marks) + 1, Len(first))

Zeros(n) == [i \in 1..n |-> "0"]

\* C10: of every event returned, clipNumber is the clip token of its line
\* behind as many zeros as make four characters when the token has fewer
\* than four, and the clip token itself when it has four or more.
C10_ClipPadded ==
    contentRet.called =>
        \A k \in 1..Len(contentRet.value) :
            LET event == contentRet.value[k]
                token == ClipToken(event.fullLine)
            IN  /\ token = contentTok.clip
                /\ Len(token) < 4 =>
                     /\ event.clipNumber = Zeros(4 - Len(token)) \o token
                     /\ Len(event.clipNumber) = 4
                /\ Len(token) >= 4 => event.clipNumber = token

\* An event with a clip token of one character has been returned.
C10_Witness ==
    /\ contentRet.called
    /\ \E k \in 1..Len(contentRet.value) :
         /\ ClipToken(contentRet.value[k].fullLine) = <<"7">>
         /\ contentRet.value[k].clipNumber = <<"0", "0", "0", "7">>

(***************************************************************************)
(* C11                                                                     *)
(***************************************************************************)
\* C11, as stated: every event returned has a clipNumber of exactly four
\* characters, all of them digits, whatever the width of the clip token.
C11_FourDigits ==
    contentRet.called =>
        \A k \in 1..Len(contentRet.value) :
            /\ Len(contentRet.value[k].clipNumber) = 4
            /\ IsDigits(contentRet.value[k].clipNumber)

\* C11, amended: every event returned has a clipNumber of at least four
\* characters that ends with the clip token of its line and is all zeros
\* before it; it has exactly four characters when the token has at most four,
\* and consists of digits only when the token does.
C11_AtLeastFour ==
    contentRet.called =>
        \A k \in 1..Len(contentRet.value) :
            LET clipNumber == contentRet.value[k].clipNumber
                token      == ClipToken(contentRet.value[k].fullLine)
                pad        == Len(clipNumber) - Len(token)
            IN  /\ Len(clipNumber) >= 4
                /\ pad >= 0
                /\ SubSeq(clipNumber, pad + 1, Len(clipNumber)) = token
                /\ \A i \in 1..pad : clipNumber[i] = "0"
                /\ Len(token) <= 4 => Len(clipNumber) = 4
                /\ Len(token) > 4 => Len(clipNumber) = Len(token)
                /\ IsDigits(clipNumber) <=> IsDigits(token)

\* An event whose clip token has five characters, one of them no digit, has
\* been returned.
C11_Witness ==
    /\ contentRet.called
    /\ \E k \in 1..Len(contentRet.value) :
         /\ Len(contentRet.value[k].clipNumber) = 5
         /\ ~IsDigits(contentRet.value[k].clipNumber)

(***************************************************************************)
(* C12                                                                     *)
(***************************************************************************)
\* s<digits>
SegmentMark(piece) ==
    /\ Len(piece) >= 2
    /\ piece[1] = "s"
    /\ IsDigits(Tail(piece))

\* What follows the session name in a track identifier:
\* _s<digits>_s_<view>_s<digits>_<clip>
TrackTail(rest) ==
    LET piece == SplitChar(rest, "_") IN
    /\ Len(piece) = 6
    /\ piece[1] = <<>>
    /\ SegmentMark(piece[2])
    /\ piece[3] = <<"s">>
    /\ piece[4] # <<>>
    /\ SegmentMark(piece[5])
    /\ piece[6] # <<>>

\* token is sessionName_s<digits>_s_<view>_s<digits>_<clip>, from its start
ExactTrack(token, session) ==
    /\ StartsWith(token, session)
    /\ TrackTail(SubSeq(token, Len(session) + 1, Len(token)))

\* line has at least 4 parts and its first part is an exact track identifier
Retainable(line, session) ==
    /\ Trim(line) # <<>>
    /\ Len(SplitSpace(Trim(line))) >= 4
    /\ ExactTrack(FirstPart(Trim(line)), session)

\* C12, as stated: an event is returned only for a line of at least 4 parts
\* whose first part is sessionName_s<digits>_s_<view>_s<digits>_<clip> with
\* nothing in front of the session name; every other line gives no event.
C12_ExactTrackOnly ==
    contentRet.called =>
        LET lines == SplitChar(contentArg, "\n") IN
        /\ \A k \in 1..Len(contentRet.value) :
             ExactTrack(FirstPart(contentRet.value[k].fullLine), sessionArg)
        /\ Len(contentRet.value) <=
             Cardinality({j \in 1..Len(lines) : Retainable(lines[j], sessionArg)})

(***************************************************************************)
(* C13                                                                     *)
(***************************************************************************)
\* token ends with sessionName_s<digits>_s_<view>_s<digits>_<clip>: what the
\* pattern <escaped sessionName>_s\d+_s_([^_]+)_s\d+_([^_]+)$ finds in it
TrackFound(token, session) ==
    \E i \in 1..Len(token) : ExactTrack(SubSeq(token, i, Len(token)), session)

\* line is in the event line grammar: no comment, at least 4 parts, the
\* first of them a track identifier of session
EventLine(line, session) ==
    /\ Trim(line) # <<>>
    /\ Trim(line)[1] # "#"
    /\ Len(SplitSpace(Trim(line))) >= 4
    /\ TrackFound(FirstPart(Trim(line)), session)

NoEventLine(body, session) ==
    LET lines == SplitChar(body, "\n") IN
    \A j \in 1..Len(lines) : ~EventLine(lines[j], session)

SessionOf(name) ==
    LET piece == SplitChar(name, "_") IN
    JoinWith(SubSeq(piece, 1, 5), <<"_">>)

\* Entry i is a matching file the scan reads whose body has no event line
EventlessFile(i) ==
    /\ Matching(i)
    /\ Reached(i)
    /\ fsys.entries[i].ok
    /\ NoEventLine(Catalog[fsys.entries[i].item].body,
                   SessionOf(NameOfEntry(fsys.entries[i])))

NothingAccepted ==
    \A i \in Entries :
        KindOf(fsys.entries[i]) # "dir" =>
            \/ ~EndsWith(NameOfEntry(fsys.entries[i]), JumpExt)
            \/ /\ InGrammar(NameOfEntry(fsys.entries[i]))
               /\ GrammarTicket(NameOfEntry(fsys.entries[i])) \notin AcceptedTickets

\* C14: over a tree of files that are no *.jump files or carry a ticket that
\* is not accepted, the response has totalFiles 0, no files, totalEvents 0,
\* empty uniqueEventTypes, uniqueCameraTypes, uniqueProjects, uniqueVehicles
\* and the empty string for dateRange.earliest and dateRange.latest.
C14_EmptySummary ==
    (Served /\ NothingAccepted) =>
        /\ response.totalFiles = 0
        /\ response.files = <<>>
        /\ response.summary.totalEvents = 0
        /\ response.summary.uniqueEventTypes = <<>>
        /\ response.summary.uniqueCameraTypes = <<>>
        /\ response.summary.uniqueProjects = <<>>
        /\ response.summary.uniqueVehicles = <<>>
        /\ response.summary.dateRange.earliest = <<>>
        /\ response.summary.dateRange.latest = <<>>

\* The scan read a directory holding a readable *.jump file in the grammar
\* with another ticket, and a file that is no *.jump file.
C14_Witness ==
    /\ Served
    /\ NothingAccepted
    /\ \E i, j \in Entries :
         /\ JumpFile(i) /\ Reached(i) /\ fsys.entries[i].ok
         /\ KindOf(fsys.entries[j]) = "file" /\ ~JumpFile(j) /\ Reached(j)

(***************************************************************************)
(* C15                                                                     *)
(***************************************************************************)
NoSelection ==
    /\ filters.selectedSubtasks = {}
    /\ filters.selectedEventTypes = {}
    /\ filters.selectedCameraTypes = {}
    /\ filters.selectedProjects = {}
    /\ filters.selectedVehicles = {}

Occurrences(seq, x) == Cardinality({k \in 1..Len(seq) : seq[k] = x})

\* C15: with the five selections empty, filteredFiles returns every record
\* of fileData.files as often as it occurs there and nothing else, whatever
\* the sort key and the sort order.
C15_NoSelectionKeepsAll ==
    (filtered.called /\ NoSelection) =>
        /\ Len(filtered.value) = Len(pageFileData.files)
        /\ \A row \in Rows :
             Occurrences(filtered.value, row) = Occurrences(pageFileData.files, row)

\* Three records, one of them twice, have been returned in another order
\* than given, sorted by eventCount downwards.
C15_Witness ==
    /\ filtered.called
    /\ NoSelection
    /\ filters.sortBy = "eventCount"
    /\ filters.sortOrder = "desc"
    /\ Len(pageFileData.files) = 3
    /\ pageFileData.files[1] = pageFileData.files[3]
    /\ pageFileData.files[1] # pageFileData.files[2]
    /\ filtered.value # pageFileData.files

(***************************************************************************)
(* C16                                                                     *)
(***************************************************************************)
Counts(files) == [k \in 1..Len(files) |-> files[k].eventCount]

\* C16: sorted by eventCount, the list returned has eventCount values that
\* never rise when the order is descending and never fall when it is
\* ascending; records with counts 3, 0, 7 come out as 7, 3, 0 and as
\* 0, 3, 7; and for every sort key the comparison of two records (the two
\* of a list of two) in descending order is the negative of their
\* comparison in ascending order.
C16_EventCountOrder ==
    filtered.called =>
        /\ filters.sortBy = "eventCount" =>
             \A k \in 1..(Len(filtered.value) - 1) :
                IF filters.sortOrder = "desc"
                THEN filtered.value[k].eventCount >= filtered.value[k + 1].eventCount
                ELSE filtered.value[k].eventCount <= filtered.value[k + 1].eventCount
        /\ (filters.sortBy = "eventCount" /\ NoSelection
              /\ Counts(pageFileData.files) = <<3, 0, 7>>) =>
             Counts(filtered.value) =
                IF filters.sortOrder = "desc" THEN <<7, 3, 0>> ELSE <<0, 3, 7>>
        /\ Len(pageFileData.files) = 2 =>
             compareFiltered(pageFileData.files[1], pageFileData.files[2],
                             [filters EXCEPT !.sortOrder = "desc"])
               = 0 - compareFiltered(pageFileData.files[1], pageFileData.files[2],
                                     [filters EXCEPT !.sortOrder = "asc"])

\* Records with counts 3, 0, 7 have been sorted by eventCount downwards.
C16_Witness ==
    /\ filtered.called
    /\ filters.sortBy = "eventCount"
    /\ filters.sortOrder = "desc"
    /\ Counts(pageFileData.files) = <<3, 0, 7>>
    /\ Counts(filtered.value) = <<7, 3, 0>>

(***************************************************************************)
(* C17                                                                     *)
(***************************************************************************)
\* The digits that end s: its longest suffix of digits
RECURSIVE DigitSuffix(_)
DigitSuffix(s) ==
    IF s = <<>> THEN <<>>
    ELSE IF s[Len(s)] \notin Digit THEN <<>>
    ELSE Append(DigitSuffix(SubSeq(s, 1, Len(s) - 1)), s[Len(s)])

BareIdentifier(s) == s # <<>> /\ IsDigits(s)

TaggedIdentifier(s) ==
    /\ StartsWith(s, DatacoPrefix)
    /\ BareIdentifier(SubSeq(s, Len(DatacoPrefix) + 1, Len(s)))

\* The comma-separated identifiers of the request being scanned for
Identifiers == SplitChar(request.subtasksParam.value, ",")

ScanRequested == request.received /\ response.status # 400

\* C17: for every subtask identifier of a request that is scanned for, be it
\* bare digits or digits behind the tag DATACO-, the key kept for matching is
\* the identifier's numeric suffix, non-empty and of digits only, one key per
\* identifier; and every record of the response carries as ticket number the
\* numeric suffix of one of the identifiers.
C17_KeyIsNumericSuffix ==
    ScanRequested =>
        /\ Len(request.subtasks) = Len(Identifiers)
        /\ \A i \in 1..Len(Identifiers) :
             (BareIdentifier(Identifiers[i]) \/ TaggedIdentifier(Identifiers[i])) =>
                 /\ request.subtasks[i] = DigitSuffix(Identifiers[i])
                 /\ request.subtasks[i] # <<>>
                 /\ IsDigits(request.subtasks[i])
        /\ Served =>
             \A k \in 1..Len(response.files) :
                 \E i \in 1..Len(Identifiers) :
                     response.files[k].datacoNumber = DigitSuffix(Identifiers[i])

\* Identifiers 42 and DATACO-7 were given, and a file of each ticket is returned
C17_Witness ==
    /\ Served
    /\ Len(Identifiers) = 2
    /\ BareIdentifier(Identifiers[1])
    /\ TaggedIdentifier(Identifiers[2])
    /\ \E k \in 1..Len(response.files) :
          response.files[k].datacoNumber = DigitSuffix(Identifiers[1])
    /\ \E k \in 1..Len(response.files) :
          response.files[k].datacoNumber = DigitSuffix(Identifiers[2])

(***************************************************************************)
(* C18                                                                     *)
(***************************************************************************)
\* The positions where a whitespace-separated token of line starts
TokenStarts(line) ==
    {j \in 1..Len(line) :
        /\ line[j] \notin WhiteSpace
        /\ (j = 1 \/ line[j - 1] \in WhiteSpace)}

\* The n-th smallest member of a set of numbers
Ranked(S, n) == CHOOSE j \in S : Cardinality({m \in S : m < j}) = n - 1

\* The token of line that starts at position j
TokenAt(line, j) ==
    LET stops == {m \in j..Len(line) : m = Len(line) \/ line[m + 1] \in WhiteSpace}
    IN  SubSeq(line, j, MinOf(stops))

Token(line, n) == TokenAt(line, Ranked(TokenStarts(line), n))

TokenCount(line) == Cardinality(TokenStarts(line))

\* line is empty but for white space, or starts with # behind white space
\* at most, or has fewer than 4 tokens
Unretained(line) ==
    \/ TokenCount(line) < 4
    \/ Token(line, 1)[1] = "#"

\* event is what the line gives: its 2nd and 3rd tokens, and the tokens from
\* the 4th on with one space between neighbours
EventOfLine(event, line) ==
    /\ event.camera = Token(line, 2)
    /\ event.frameNumber = Token(line, 3)
    /\ event.eventName =
         JoinWith([n \in 1..(TokenCount(line) - 3) |-> Token(line, n + 3)], <<" ">>)

\* C18: the events returned come from distinct lines of the body, in the
\* order of those lines (the k-th event from the k-th of the lines taken);
\* no line taken is empty after trimming, starts with # after trimming, or
\* has fewer than 4 white-space-separated tokens; and each event's camera is
\* its line's 2nd token, its frameNumber the 3rd, its eventName the tokens
\* from the 4th on joined by single spaces.
C18_OneEventPerLineInOrder ==
    contentRet.called =>
        LET lines == SplitChar(contentArg, "\n") IN
        \E taken \in SUBSET (1..Len(lines)) :
            /\ Len(contentRet.value) = Cardinality(taken)
            /\ \A k \in 1..Len(contentRet.value) :
                 LET line == lines[Ranked(taken, k)] IN
                 /\ ~Unretained(line)
                 /\ EventOfLine(contentRet.value[k], line)

\* A body of two lines, the first with doubled spaces and an event name of
\* two words, the second starting with #, gave the one event of the first.
C18_Witness ==
    /\ contentRet.called
    /\ contentTok.shapes = <<"spaced", "hashed">>
    /\ Len(contentRet.value) = 1
    /\ contentRet.value[1].camera = <<"C", "a", "m", "B">>
    /\ contentRet.value[1].frameNumber = <<"2", "0", "0">>
    /\ contentRet.value[1].eventName =
         <<"L", "a", "n", "e", " ", "c", "h", "a", "n", "g", "e">>

(***************************************************************************)
(* C19                                                                     *)
(***************************************************************************)
\* Where value first occurs in the field f of events
FirstAt(events, f, value) ==
    MinOf({k \in 1..Len(events) : events[k][f] = value})

\* unique lists the values of field f of events, each once, in the order in
\* which they first occur
FirstSeenProjection(unique, events, f) ==
    /\ \A i, j \in 1..Len(unique) : unique[i] = unique[j] => i = j
    /\ {unique[i] : i \in 1..Len(unique)} = {events[k][f] : k \in 1..Len(events)}
    /\ \A i, j \in 1..Len(unique) :
         i < j => FirstAt(events, f, unique[i]) < FirstAt(events, f, unique[j])

\* C19: in every record of a scan response, uniqueEvents, uniqueCameras and
\* uniqueClips have no duplicates, hold exactly the eventName, camera and
\* clipNumber values of the record's events, in order of first occurrence,
\* and eventCount is the number of events.
C19_UniqueProjections ==
    Served =>
        \A k \in 1..Len(response.files) :
            LET file == response.files[k] IN
            /\ FirstSeenProjection(file.uniqueEvents, file.events, "eventName")
            /\ FirstSeenProjection(file.uniqueCameras, file.events, "camera")
            /\ FirstSeenProjection(file.uniqueClips, file.events, "clipNumber")
            /\ file.eventCount = Len(file.events)

\* A record is returned whose three events share an event name and a camera
\* and whose clips were first seen in the order 0007, 0012, 0003.
C19_Witness ==
    /\ Served
    /\ \E k \in 1..Len(response.files) :
          LET file == response.files[k] IN
          /\ file.eventCount = 3
          /\ Len(file.uniqueEvents) = 2
          /\ Len(file.uniqueCameras) = 2
          /\ file.uniqueClips = << <<"0", "0", "0", "7">>, <<"0", "0", "1", "2">>,
                                   <<"0", "0", "0", "3">> >>

(***************************************************************************)
(* C20                                                                     *)
(***************************************************************************)
\* x comes strictly before y lexicographically by code units: at the first
\* position where they differ x has the smaller code unit, or x has ended.
Before(x, y) ==
    \E p \in 1..Len(y) :
        /\ p <= Len(x) + 1
        /\ SubSeq(x, 1, p - 1) = SubSeq(y, 1, p - 1)
        /\ (p <= Len(x) => CodeUnit(x[p]) < CodeUnit(y[p]))

\* list holds the members of values, each once, in ascending order
AscendingSetOf(list, values) ==
    /\ \A i, j \in 1..Len(list) : i < j => Before(list[i], list[j])
    /\ {list[i] : i \in 1..Len(list)} = values

EventValues(files, f) ==
    UNION {{files[k].events[e][f] : e \in 1..Len(files[k].events)} :
              k \in 1..Len(files)}

RECURSIVE SumOf(_)
SumOf(numbers) ==
    IF numbers = <<>> THEN 0 ELSE Head(numbers) + SumOf(Tail(numbers))

\* C20: in every scan response the summary's uniqueEventTypes,
\* uniqueCameraTypes, uniqueProjects and uniqueVehicles are strictly
\* ascending by code units (so free of duplicates) and hold exactly the
\* event names and cameras of all events of the returned records and the
\* projects and vehicles of the returned records; totalEvents is the sum of
\* the records' eventCount and totalFiles the number of records.
C20_SummarySets ==
    Served =>
        LET files   == response.files
            summary == response.summary
        IN  /\ AscendingSetOf(summary.uniqueEventTypes, EventValues(files, "eventName"))
            /\ AscendingSetOf(summary.uniqueCameraTypes, EventValues(files, "camera"))
            /\ AscendingSetOf(summary.uniqueProjects,
                              {files[k].project : k \in 1..Len(files)})
            /\ AscendingSetOf(summary.uniqueVehicles,
                              {files[k].vehicle : k \in 1..Len(files)})
            /\ summary.totalEvents = SumOf(Counts(files))
            /\ response.totalFiles = Len(files)

\* Three records of projects a.b, B and PRJ (the order of their file names)
\* with five events between them are returned; the summary lists the
\* projects as B, PRJ, a.b and two event names for the five events.
C20_Witness ==
    /\ Served
    /\ Len(response.files) = 3
    /\ response.summary.uniqueProjects =
         << <<"B">>, <<"P", "R", "J">>, <<"a", ".", "b">> >>
    /\ Len(response.summary.uniqueVehicles) = 1
    /\ response.summary.totalEvents = 5
    /\ Len(response.summary.uniqueEventTypes) = 2
    /\ Len(response.summary.uniqueCameraTypes) = 2

(***************************************************************************)
(* C21                                                                     *)
(***************************************************************************)
\* earliest and latest are dates of files, no date of files comes before
\* earliest and none after latest in the order of code units
StringExtremes(range, files) ==
    LET dates == {files[k].date : k \in 1..Len(files)} IN
    /\ range.earliest \in dates
    /\ range.latest \in dates
    /\ \A d \in dates : ~Before(d, range.earliest) /\ ~Before(range.latest, d)

\* C21: in every scan response with at least one record, and for every
\* non-empty list of records the summary is computed from, dateRange.earliest
\* is the smallest and dateRange.latest the largest of the records' formatted
\* dates in the lexicographic order of the strings, and both are dates of
\* records.
C21_DateRangeByStringOrder ==
    /\ (Served /\ Len(response.files) >= 1) =>
          StringExtremes(response.summary.dateRange, response.files)
    /\ (summaryRet.called /\ Len(summaryArg.files) >= 1) =>
          StringExtremes(summaryRet.value.dateRange, summaryArg.files)

\* Records of 15/06/2023, 01/01/2024 and 31/01/2024, given in another order,
\* have the range 01/01/2024 to 31/01/2024: the earliest is not the
\* calendar's.
C21_Witness ==
    /\ summaryRet.called
    /\ MapField(summaryArg.files, "date") =
         << <<"3", "1", "/", "0", "1", "/", "2", "0", "2", "4">>,
            <<"1", "5", "/", "0", "6", "/", "2", "0", "2", "3">>,
            <<"0", "1", "/", "0", "1", "/", "2", "0", "2", "4">> >>
    /\ summaryRet.value.dateRange.earliest =
         <<"0", "1", "/", "0", "1", "/", "2", "0", "2", "4">>
    /\ summaryRet.value.dateRange.latest =
         <<"3", "1", "/", "0", "1", "/", "2", "0", "2", "4">>

(***************************************************************************)
(* C22                                                                     *)
(***************************************************************************)
Date31Jan == <<"3", "1", "/", "0", "1", "/", "2", "0", "2", "4">>
Date01Feb == <<"0", "1", "/", "0", "2", "/", "2", "0", "2", "4">>

TwoDatesSummarised ==
    /\ summaryRet.called
    /\ {summaryArg.files[k].date : k \in 1..Len(summaryArg.files)}
         = {Date31Jan, Date01Feb}

\* C22, as stated: for records that carry exactly the dates 31/01/2024 and
\* 01/02/2024, dateRange.earliest is 31/01/2024 and dateRange.latest is
\* 01/02/2024.
C22_JanuaryFirst ==
    TwoDatesSummarised =>
        /\ summaryRet.value.dateRange.earliest = Date31Jan
        /\ summaryRet.value.dateRange.latest = Date01Feb

\* C22, amended: the string 01/02/2024 sorts before the string 31/01/2024;
\* for records that carry exactly these two dates, dateRange.earliest is
\* 01/02/2024 and dateRange.latest is 31/01/2024.
C22_FebruaryFirst ==
    TwoDatesSummarised =>
        /\ Before(Date01Feb, Date31Jan)
        /\ summaryRet.value.dateRange.earliest = Date01Feb
        /\ summaryRet.value.dateRange.latest = Date31Jan

\* The summary of a record of 31/01/2024 followed by one of 01/02/2024
C22_Witness ==
    /\ summaryRet.called
    /\ MapField(summaryArg.files, "date") = <<Date31Jan, Date01Feb>>
    /\ summaryRet.value.dateRange.earliest = Date01Feb

(***************************************************************************)
(* C23                                                                     *)
(***************************************************************************)

\* values meets selection: the selection is empty or shares a value with it
Meets(values, selection) == selection = {} \/ values \cap selection # {}

\* file satisfies every constraint of f
Satisfies(file, f) ==
    /\ Meets({DatacoPrefix \o file.datacoNumber}, f.selectedSubtasks)
    /\ Meets({file.project}, f.selectedProjects)
    /\ Meets({file.vehicle}, f.selectedVehicles)
    /\ Meets(Members(file.uniqueEvents), f.selectedEventTypes)
    /\ Meets(Members(file.uniqueCameras), f.selectedCameraTypes)

\* C23: a record given to filteredFiles is in the list returned, as often as
\* it was given, if and only if for every non-empty selection it has a
\* selected value (its DATACO- ticket, its project, its vehicle, one of its
\* uniqueEvents, one of its uniqueCameras); the list returned holds nothing
\* that was not given.
C23_PassesIffSatisfies ==
    filtered.called =>
        /\ Members(filtered.value) \subseteq Members(pageFileData.files)
        /\ \A row \in Members(pageFileData.files) :
             Occurrences(filtered.value, row) =
                 IF Satisfies(row, filters)
                 THEN Occurrences(pageFileData.files, row) ELSE 0

\* With event type Honk alone selected, of a file without events and a file
\* with the event names Honk and Lane change the second alone is returned.
C23_Witness ==
    /\ filtered.called
    /\ filters.selectedEventTypes = {<<"H", "o", "n", "k">>}
    /\ filters.selectedSubtasks = {}
    /\ Len(pageFileData.files) = 2
    /\ pageFileData.files[1].uniqueEvents = <<>>
    /\ Len(pageFileData.files[2].uniqueEvents) = 2
    /\ filtered.value = <<pageFileData.files[2]>>

(***************************************************************************)
(* C24                                                                     *)
(***************************************************************************)
\* The name handed to parseFileName has a date of 5 or 7 digits, a time
\* that starts with a letter, or a creation date of 5 digits
MalformedDateOrTime ==
    /\ nameRet.called
    /\ nameTok.shape \in {"shortDate", "longDate", "alphaTime", "shortCreate"}

\* The date, time and createDate tokens as they stand in the name
TokensInName == SubSeq(SplitChar(nameArg, "_"), 3, 6)

\* C24, as stated: a name whose date or time token is malformed is not
\* rejected, and the metadata returned has that token as it stands in the
\* name.
C24_PassedThrough ==
    MalformedDateOrTime =>
        /\ nameRet.value.matched
        /\ nameRet.value.date = TokensInName[1]
             \/ nameRet.value.time = TokensInName[2]
             \/ nameRet.value.createDate = TokensInName[4]

\* C24, amended: a name whose date, time or creation date token is not
\* exactly 6 digits is rejected by parseFileName (null is returned); it is
\* the formatters alone that hand back unchanged a string that is not 6
\* characters long.
C24_Rejected ==
    MalformedDateOrTime =>
        /\ \E n \in {1, 2, 4} :
             Len(TokensInName[n]) # 6 \/ ~IsDigits(TokensInName[n])
        /\ nameRet.value = NoMetadata
        /\ \A n \in {1, 2, 4} :
             Len(TokensInName[n]) # 6 =>
                 /\ formatDate(TokensInName[n]) = TokensInName[n]
                 /\ formatTime(TokensInName[n]) = TokensInName[n]

\* A name with a date of 5 digits has been handed to parseFileName
C24_Witness ==
    /\ nameRet.called
    /\ nameTok.shape = "shortDate"
    /\ Len(TokensInName[1]) = 5
    /\ nameRet.value = NoMetadata

(***************************************************************************)
(* C25                                                                     *)
(***************************************************************************)
\* Entry i lies in the directory d or below it
RECURSIVE Beneath(_, _)
Beneath(i, d) ==
    IF fsys.entries[i].parent = 0 THEN FALSE
    ELSE fsys.entries[i].parent = d \/ Beneath(fsys.entries[i].parent, d)

\* No directory has been listed twice and no file read twice
AtMostOnce == \A i \in 0..Len(fsys.entries) : visits[i] <= 1

\* What failed is left out of what scanDirectory returned: a file that
\* cannot be read has no record, nor has anything in a directory that
\* cannot be listed
FailuresOmitted ==
    \A i \in Entries :
        ~fsys.entries[i].ok =>
            /\ RecordsAt(scanned, i) = {}
            /\ \A j \in Entries :
                 (KindOf(fsys.entries[i]) = "dir" /\ Beneath(j, i)) =>
                     RecordsAt(scanned, j) = {}

\* C25: over every tree a scan that has begun ends (the outermost
\* scanDirectory returns), and by then no directory has been listed and no
\* file been read more than once, a failed one included (the counts never
\* fall), and what is returned leaves out the file that could not be read
\* and everything under the directory that could not be listed.
C25_ScanTerminates ==
    (phase = "scanning") ~> (phase = "scanned" /\ AtMostOnce /\ FailuresOmitted)

\* A scan was served in which a read or a listing failed, once, and another
\* file was read and returned.
C25_Witness ==
    /\ Served
    /\ \E i, j \in Entries :
          /\ ~fsys.entries[i].ok
          /\ visits[i] = 1
          /\ visits[j] = 1
          /\ RecordsAt(response.files, j) # {}

(***************************************************************************)
(* C26                                                                     *)
(***************************************************************************)
\* C26, as stated: whatever the user does and whenever the responses of the
\* ticket lookup and of the file scan arrive, the results view has its
\* ticket (viewState = 'results' implies ticketData is not null) and the
\* files view has its file data (viewState = 'files-results' implies
\* fileData is not null).
C26_ViewsHaveData ==
    /\ viewState = "results" => ticketData.loaded
    /\ viewState = "files-results" => pageFileData.loaded

(***************************************************************************)
(* C27                                                                     *)
(***************************************************************************)
\* C27, as stated: the search that Try Example starts is a lookup of ticket
\* 13665 whatever the search box held at the click: when its timer expires
\* the view becomes 'loading' and one more request for 13665 is in flight,
\* never one for what the box held before and never the 'Please enter a
\* ticket number' error.
C27_ExampleLookedUp ==
    [][(\E v \in BoxValues : timers'[v] < timers[v]) =>
          /\ viewState' = "loading"
          /\ lookups'[encodeURIComponent(ExampleTicket)] =
                lookups[encodeURIComponent(ExampleTicket)] + 1]_vars

(***************************************************************************)
(* C28                                                                     *)
(***************************************************************************)
\* view holds every record of files, each as often as files does
SameRecords(view, files) ==
    /\ Len(view) = Len(files)
    /\ \A i \in 1..Len(files) :
          Cardinality({j \in 1..Len(view) : view[j] = files[i]}) =
          Cardinality({j \in 1..Len(files) : files[j] = files[i]})

\* view is in ascending order of fileName
ByFileName(view) ==
    \A i \in 1..Len(view) : \A j \in i..Len(view) :
        localeCompare(view[i].fileName, view[j].fileName) <= 0

\* The files view under the filters that handleSearchFiles and Reset
\* Filters set
DefaultsShown == FilesShown /\ filters = defaultFilters(pageFileData)

\* C28: right after a file scan has succeeded, and right after Reset
\* Filters whatever the filters were before, the files view is under the
\* default filters (all echoed subtasks, all projects and all vehicles
\* selected, no event or camera type, fileName ascending), and under them
\* filteredFiles holds every record of the response, totalFiles of them, in
\* ascending order of fileName.
C28_DefaultsKeepAll ==
    /\ [][(ScanSucceeds \/ ResetFilters) => DefaultsShown']_vars
    /\ [](DefaultsShown =>
             LET view == filteredFiles(pageFileData, filters) IN
             /\ Len(view) = pageFileData.totalFiles
             /\ SameRecords(view, pageFileData.files)
             /\ ByFileName(view))

\* The files view over two records of different subtasks under the default
\* filters
C28_Witness ==
    /\ DefaultsShown
    /\ pageFileData.totalFiles = 2
    /\ Cardinality(filters.selectedSubtasks) = 2
    /\ pageFileData.files[1].datacoNumber # pageFileData.files[2].datacoNumber
    /\ Len(filteredFiles(pageFileData, filters)) = 2

(***************************************************************************)
(* C29                                                                     *)
(***************************************************************************)
\* The message of GET /api/files for a missing parameter
ParametersRequired == "mainTicket and subtasks parameters are required"

\* The request GET /api/files is handling has an empty subtasks parameter
EmptySubtasksReceived ==
    /\ request.received
    /\ request.subtasksParam.present
    /\ request.subtasksParam.value = <<>>

\* C29: for a ticket without subtasks Scan Files sends an empty subtasks
\* parameter; the server answers such a request with status 400 and scans
\* nothing (no directory is listed, no file is read); and when that answer
\* arrives the page goes to the error view with the server's message, not to
\* the files view.
C29_NoSubtasksRejected ==
    /\ [][(ClickScanFiles /\ ticketData.subtasks = <<>>) =>
             scanQueue'[Len(scanQueue')].subtasks = <<>>]_vars
    /\ [](EmptySubtasksReceived =>
             /\ phase = "responded"
             /\ response.status = 400
             /\ stack = <<>>
             /\ scanned = <<>>
             /\ \A i \in DOMAIN visits : visits[i] = 0)
    /\ [][(EmptySubtasksReceived /\ phase' = "idle") =>
             /\ viewState' = "error"
             /\ errorMessage' = ParametersRequired]_vars

\* The error view with the server's message, the page holding a ticket
\* without subtasks
C29_Witness ==
    /\ viewState = "error"
    /\ errorMessage = ParametersRequired
    /\ ticketData.loaded
    /\ ticketData.subtasks = <<>>

(***************************************************************************)
(* C30                                                                     *)
(***************************************************************************)
\* The summaries that stand for one that could not be fetched
Placeholders == {"Unable to fetch summary", "Error fetching summary"}

\* C30: once the main ticket has been fetched the handler answers with no
\* error, and its answer lists one entry per subtask of the ticket, under
\* the same keys in the same order, in whatever order the fetches of the
\* subtasks ended and however each ended; the entry of a subtask whose fetch
\* threw or was not ok has a placeholder for its summary, and the entry of a
\* subtask whose fetch was ok has the summary JIRA holds.
C30_OneEntryPerSubtask ==
    jira.phase # "off" /\ jira.fetched =>
        /\ jira.response.status \in {0, 200}
        /\ jira.phase = "responded" =>
              LET listed == jira.response.subtasks IN
              /\ jira.response.status = 200
              /\ Len(listed) = Len(jira.subtasks)
              /\ \A i \in 1..Len(jira.subtasks) :
                    /\ listed[i].key = jira.subtasks[i].key
                    /\ jira.outcomes[i] \in {"notOk", "threw"} =>
                          listed[i].summary \in Placeholders
                    /\ jira.outcomes[i] = "ok" =>
                          listed[i].summary = SummaryHeld

\* The answer for a ticket with two subtasks: the fetch of the second ended
\* first and was ok, that of the first threw
C30_Witness ==
    /\ jira.phase = "responded"
    /\ jira.fetched
    /\ Len(jira.subtasks) = 2
    /\ jira.order = <<2, 1>>
    /\ jira.outcomes = <<"threw", "ok">>
    /\ jira.response.status = 200

====
